---- MODULE Spec2Model ----
(***************************************************************************)
(* A model of the two stateful components of ynab-py and of the helpers    *)
(* built on them:                                                          *)
(*   - RateLimiter (ynab_py/rate_limiter.py): a sliding-window call log    *)
(*     guarded by one lock, which is held while the caller sleeps;         *)
(*   - Cache (ynab_py/cache.py): an LRU store with per-entry expiry;       *)
(*   - cache_key and the cached wrapper (ynab_py/cache.py);                *)
(*   - the Cache methods once more, statement by statement under           *)
(*     Cache._lock, run by concurrent threads.                             *)
(* Wall-clock time (time.time()) is the variable now.  Strings that the    *)
(* code builds (cache keys) are sequences of one-character strings.        *)
(***************************************************************************)
EXTENDS Integers, Sequences, FiniteSets, TLC

VARIABLES
    now,             \* time.time()
    \* ---- RateLimiter
    max_requests,    \* RateLimiter.max_requests
    requests,        \* RateLimiter.requests (deque, oldest first)
    lock,            \* RateLimiter.lock: "free" or the thread holding it
    rl_pc,           \* per thread: "idle", "sleeping" (inside time.sleep) or
                     \* the method whose `with self.lock` it is blocked at
    rl_wake,         \* per thread: the instant its time.sleep ends
    rl_ret,          \* per thread: outcome of its last wait_if_needed call
    rl_stats,        \* the dict returned by the last get_stats call
    rl_hist,         \* history of the RateLimiter calls (not program state):
                     \* calls of wait_if_needed started, calls of time.sleep,
                     \* whether reset was ever called, and whether reset was
                     \* the last call to change the log
    \* ---- Cache
    max_size,        \* Cache.max_size
    default_ttl,     \* Cache.default_ttl
    _cache,          \* Cache._cache: key -> CacheEntry
    _access_order,   \* Cache._access_order (list, least recently used first)
    _hits,           \* Cache._hits
    _misses,         \* Cache._misses
    c_ret,           \* what the last Cache call returned, raised and logged, and
                     \* (history, kept by the call-level actions) whether it was
                     \* a set of a key that was already stored
    \* ---- history of the Cache calls (not program state)
    c_used,          \* stored keys by their last successful get or set,
                     \* oldest first
    c_meta,          \* per stored key: the instant of its last set, and the
                     \* value and the effective ttl that set was given
    c_gets,          \* the number of calls of get that have returned
    \* ---- one call of cache_key
    ck_args,         \* *args, in call order
    ck_kwargs,       \* **kwargs, in the order they were passed
    ck_key,          \* the string returned
    ck_done,         \* whether the call has returned
    \* ---- a function wrapped by cached(cache_instance), called by the threads
    w_none,          \* the calls for which the wrapped function returns None
    w_pc,            \* per thread: "idle", or "missed" (between get and set)
    w_call,          \* per thread: the call it is making
    w_ret,           \* per thread: its last call and what the wrapper returned
    w_runs,          \* per call: how many times the wrapped function ran
    \* ---- Cache methods run statement by statement by the threads
    _lock,           \* Cache._lock: "free" or the thread holding it
    th,              \* per thread: the statement it is at, the arguments and
                     \* locals of its call, and what its last call returned
    lin,             \* history: the last call that took the lock, by whom, and
                     \* what that call gives when run alone on the state it found
    \* ---- the client (YnabPy) and its HTTP wrapper (http_utils)
    enable_rate_limiting,  \* whether YnabPy._rate_limiter is a RateLimiter
    enable_caching,  \* whether YnabPy._cache is a Cache
    _requests_remaining,   \* YnabPy._requests_remaining
    h,               \* per thread: where its call of get, post, patch, put or
                     \* delete is, the method and endpoint, and how many
                     \* times the call has called wait_if_needed
    h_ret,           \* what the last call of the wrapper to end gave: the
                     \* status of the response, the exception raised ("none"
                     \* when the response is returned) and its retry_after
    h_hist,          \* history of the wrapper's calls (not program state)
    cl_ret           \* the last pass-through call of the client and what it
                     \* returned

rl_vars == <<max_requests, requests, lock, rl_pc, rl_wake, rl_ret, rl_stats,
             rl_hist>>

cache_vars == <<max_size, default_ttl, _cache, _access_order, _hits, _misses,
                c_ret, c_used, c_meta, c_gets>>

key_vars == <<ck_args, ck_kwargs, ck_key, ck_done>>

wrap_vars == <<w_none, w_pc, w_call, w_ret, w_runs>>

lk_vars == <<_lock, th, lin>>

http_vars == <<enable_rate_limiting, enable_caching, _requests_remaining, h,
               h_ret, h_hist, cl_ret>>

vars == <<now, rl_vars, cache_vars, key_vars, wrap_vars, lk_vars, http_vars>>

----------------------------------------------------------------------------
(* Bounds of the model *)

\* time advances in steps of window_seconds / StepsPerWindow
StepsPerWindow == 2
\* the clock stops after MaxTicks steps
MaxTicks == 5
\* max_requests ranges over 0..MaxRequests
MaxRequests == 2
\* no new wait_if_needed call starts once the log holds MaxLog entries
MaxLog == 4
\* wait_if_needed is called at most MaxCalls times
MaxCalls == 5
\* max_size ranges over 0..MaxSize
MaxSize == 2
\* cache_key is called with at most MaxArgs positional arguments
MaxArgs == 2
\* cache_key is called with at most MaxKwargs named arguments
MaxKwargs == 2
\* the Cache's clock stops at MaxNow seconds
MaxNow == 2
\* Cache.get is called at most MaxGets times
MaxGets == 2
\* the HTTP wrapper's methods are called at most MaxHttpCalls times
MaxHttpCalls == 3

MaxLookups == 3
\* the clock of the HTTP wrapper stops after MaxHttpTicks steps
MaxHttpTicks == 2

Threads == {"t1", "t2"}

None == "None"

----------------------------------------------------------------------------
(* RateLimiter *)

window_seconds == 3600

TimeStep == window_seconds \div StepsPerWindow

NoStats == [requests_used |-> 0, requests_remaining |-> 0, max_requests |-> 0,
            window_seconds |-> 0, usage_percentage |-> <<0, 1>>]

\* History: nothing was called yet.
NoCalls == [calls |-> 0, sleeps |-> 0, was_reset |-> FALSE, just_reset |-> FALSE]

\* Mutant of _clean_old_requests: every entry older than current_time goes.
RECURSIVE _clean_requests_before_now(_, _)
_clean_requests_before_now(reqs, current_time) ==
    IF reqs # <<>> /\ reqs[1] < current_time
    THEN _clean_requests_before_now(Tail(reqs), current_time)
    ELSE reqs

\* Mutant of _clean_old_requests: `if` for `while`, at most one entry goes.
_clean_one_old_request(reqs, current_time) ==
    IF reqs # <<>> /\ reqs[1] < current_time - window_seconds
    THEN Tail(reqs)
    ELSE reqs

\* Mutant of _clean_old_requests: `<=` for `<`, an entry exactly
\* window_seconds old goes too.
RECURSIVE _clean_requests_up_to_cutoff(_, _)
_clean_requests_up_to_cutoff(reqs, current_time) ==
    IF reqs # <<>> /\ reqs[1] <= current_time - window_seconds
    THEN _clean_requests_up_to_cutoff(Tail(reqs), current_time)
    ELSE reqs

\* RateLimiter._clean_old_requests: pop from the left while the oldest entry
\* is strictly older than current_time - window_seconds.
RECURSIVE _clean_old_requests(_, _)
_clean_old_requests(reqs, current_time) ==
    IF reqs # <<>> /\ reqs[1] < current_time - window_seconds
    THEN _clean_old_requests(Tail(reqs), current_time)
    ELSE reqs

\* Mutant of wait_time: the wait is counted from the newest entry.
wait_time_from_newest(reqs, current_time) ==
    reqs[Len(reqs)] + window_seconds - current_time

\* The sleep decision of wait_if_needed on the purged log: 0 when no sleep.
\* (Only evaluated on a non-empty log.)
wait_time(reqs, current_time) ==
    reqs[1] + window_seconds - current_time

RLInit ==
    /\ max_requests \in 0..MaxRequests
    /\ requests = <<>>
    /\ lock = "free"
    /\ rl_pc = [t \in Threads |-> "idle"]
    /\ rl_wake = [t \in Threads |-> 0]
    /\ rl_ret = [t \in Threads |-> "none"]
    /\ rl_stats = NoStats
    /\ rl_hist = NoCalls

\* The model lets a new call of wait_if_needed start only while the log and
\* the number of calls are within the bounds; a call that has started always
\* runs to its end.
CallMayStart == Len(requests) < MaxLog /\ rl_hist.calls < MaxCalls

\* RateLimiter.wait_if_needed, from the call to its return, its exception or
\* its time.sleep.  The lock is taken on entry and stays held during the sleep.
wait_if_needed(t) ==
    /\ rl_pc[t] \in {"idle", "wait_if_needed"}
    /\ lock = "free"
    /\ rl_pc[t] = "idle" => CallMayStart
    /\ LET current_time == now
           cleaned == _clean_old_requests(requests, current_time)
           \* a call that was blocked at the lock is already counted
           started == IF rl_pc[t] = "idle" THEN 1 ELSE 0
       IN  IF Len(cleaned) >= max_requests
           THEN IF cleaned = <<>>
                THEN \* self.requests[0] on an empty deque: IndexError; the with
                     \* statement releases the lock
                     /\ requests' = cleaned
                     /\ rl_ret' = [rl_ret EXCEPT ![t] = "IndexError"]
                     /\ rl_pc' = [rl_pc EXCEPT ![t] = "idle"]
                     /\ rl_hist' = [rl_hist EXCEPT !.calls = @ + started,
                                                   !.just_reset = FALSE]
                     /\ UNCHANGED <<lock, rl_wake>>
                ELSE IF wait_time(cleaned, current_time) > 0
                     THEN /\ requests' = cleaned
                          /\ lock' = t
                          /\ rl_pc' = [rl_pc EXCEPT ![t] = "sleeping"]
                          /\ rl_wake' = [rl_wake EXCEPT ![t] =
                                 current_time + wait_time(cleaned, current_time)]
                          /\ rl_ret' = [rl_ret EXCEPT ![t] = "running"]
                          /\ rl_hist' = [rl_hist EXCEPT !.calls = @ + started,
                                                        !.sleeps = @ + 1,
                                                        !.just_reset = FALSE]
                     ELSE /\ requests' = Append(cleaned, current_time)
                          /\ rl_ret' = [rl_ret EXCEPT ![t] = "ok"]
                          /\ rl_pc' = [rl_pc EXCEPT ![t] = "idle"]
                          /\ rl_hist' = [rl_hist EXCEPT !.calls = @ + started,
                                                        !.just_reset = FALSE]
                          /\ UNCHANGED <<lock, rl_wake>>
           ELSE /\ requests' = Append(cleaned, current_time)
                /\ rl_ret' = [rl_ret EXCEPT ![t] = "ok"]
                /\ rl_pc' = [rl_pc EXCEPT ![t] = "idle"]
                /\ rl_hist' = [rl_hist EXCEPT !.calls = @ + started,
                                              !.just_reset = FALSE]
                /\ UNCHANGED <<lock, rl_wake>>
    /\ UNCHANGED <<now, max_requests, rl_stats>>

\* The same as a step of the whole program: nothing else changes.
RateLimiter_wait_if_needed(t) ==
    /\ wait_if_needed(t)
    /\ UNCHANGED <<cache_vars, key_vars, wrap_vars, lk_vars, http_vars>>

\* Mutant of RateLimiter_wake_up: the call returns and the lock stays held.
RateLimiter_wake_up_keeps_lock(t) ==
    /\ rl_pc[t] = "sleeping"
    /\ lock = t
    /\ now >= rl_wake[t]
    /\ requests' = Append(_clean_old_requests(requests, now), now)
    /\ rl_pc' = [rl_pc EXCEPT ![t] = "idle"]
    /\ rl_wake' = [rl_wake EXCEPT ![t] = 0]
    /\ rl_ret' = [rl_ret EXCEPT ![t] = "ok"]
    /\ UNCHANGED <<now, max_requests, lock, rl_stats, rl_hist, cache_vars,
                   key_vars, wrap_vars, lk_vars, http_vars>>

\* The rest of wait_if_needed after time.sleep returns: re-read the clock,
\* purge again, append, release the lock.  time.sleep never returns early.
wake_up(t) ==
    /\ rl_pc[t] = "sleeping"
    /\ lock = t
    /\ now >= rl_wake[t]
    /\ LET current_time == now
           cleaned == _clean_old_requests(requests, current_time)
       IN  requests' = Append(cleaned, current_time)
    /\ lock' = "free"
    /\ rl_pc' = [rl_pc EXCEPT ![t] = "idle"]
    /\ rl_wake' = [rl_wake EXCEPT ![t] = 0]
    /\ rl_ret' = [rl_ret EXCEPT ![t] = "ok"]
    /\ UNCHANGED <<now, max_requests, rl_stats, rl_hist>>

\* The same as a step of the whole program: nothing else changes.
RateLimiter_wake_up(t) ==
    /\ wake_up(t)
    /\ UNCHANGED <<cache_vars, key_vars, wrap_vars, lk_vars, http_vars>>

\* RateLimiter.get_stats
limiter_get_stats(t) ==
    /\ rl_pc[t] \in {"idle", "get_stats"}
    /\ lock = "free"
    /\ rl_pc' = [rl_pc EXCEPT ![t] = "idle"]
    /\ LET cleaned == _clean_old_requests(requests, now)
       IN  /\ requests' = cleaned
           /\ rl_stats' =
                [requests_used |-> Len(cleaned),
                 requests_remaining |-> max_requests - Len(cleaned),
                 max_requests |-> max_requests,
                 window_seconds |-> window_seconds,
                 \* a fraction <<numerator, denominator>>
                 usage_percentage |->
                     IF max_requests > 0 THEN <<Len(cleaned) * 100, max_requests>>
                                         ELSE <<0, 1>>]
    /\ UNCHANGED <<now, max_requests, lock, rl_wake, rl_ret, rl_hist>>

\* The same as a step of the whole program: nothing else changes.
RateLimiter_get_stats(t) ==
    /\ limiter_get_stats(t)
    /\ UNCHANGED <<cache_vars, key_vars, wrap_vars, lk_vars, http_vars>>

\* Mutant of RateLimiter.reset: the newest entry of the log is kept.
RateLimiter_reset_keeps_newest(t) ==
    /\ rl_pc[t] \in {"idle", "reset"}
    /\ lock = "free"
    /\ requests' = IF requests = <<>> THEN <<>>
                                      ELSE <<requests[Len(requests)]>>
    /\ rl_pc' = [rl_pc EXCEPT ![t] = "idle"]
    /\ rl_hist' = [rl_hist EXCEPT !.was_reset = TRUE, !.just_reset = TRUE]
    /\ UNCHANGED <<now, max_requests, lock, rl_wake, rl_ret, rl_stats,
                   cache_vars, key_vars, wrap_vars, lk_vars, http_vars>>

\* RateLimiter.reset
RateLimiter_reset(t) ==
    /\ rl_pc[t] \in {"idle", "reset"}
    /\ lock = "free"
    /\ requests' = <<>>
    /\ rl_pc' = [rl_pc EXCEPT ![t] = "idle"]
    /\ rl_hist' = [rl_hist EXCEPT !.was_reset = TRUE, !.just_reset = TRUE]
    /\ UNCHANGED <<now, max_requests, lock, rl_wake, rl_ret, rl_stats,
                   cache_vars, key_vars, wrap_vars,
                   lk_vars, http_vars>>

\* The methods of RateLimiter; each starts with `with self.lock`.
Methods == {"wait_if_needed", "get_stats", "reset"}

\* Thread t calls method m while another thread holds the lock: it blocks at
\* `with self.lock` until the lock is released.
blocks(t, m) ==
    /\ rl_pc[t] = "idle"
    /\ lock # "free"
    /\ m = "wait_if_needed" => CallMayStart
    /\ rl_pc' = [rl_pc EXCEPT ![t] = m]
    /\ rl_hist' = IF m = "wait_if_needed"
                  THEN [rl_hist EXCEPT !.calls = @ + 1]
                  ELSE rl_hist
    /\ UNCHANGED <<now, max_requests, requests, lock, rl_wake, rl_ret,
                   rl_stats>>

\* The same as a step of the whole program: nothing else changes.
RateLimiter_blocks(t, m) ==
    /\ blocks(t, m)
    /\ UNCHANGED <<cache_vars, key_vars, wrap_vars, lk_vars, http_vars>>

\* The clock advances.  The model stops it after MaxTicks steps, but never
\* before the end of a time.sleep that has begun.
Tick ==
    /\ \/ now < MaxTicks * TimeStep
       \/ \E t \in Threads : rl_pc[t] = "sleeping" /\ now < rl_wake[t]
    /\ now' = now + TimeStep
    /\ UNCHANGED <<rl_vars, cache_vars, key_vars, wrap_vars,
                   lk_vars, http_vars>>

----------------------------------------------------------------------------
(* Cache *)

Keys == {<<"a">>, <<"b">>, <<"c">>}

Values == {"v1", None}

\* The ttl argument of Cache.set: <<>> is ttl=None, <<n>> is ttl=n.
TtlArgs == {<<>>, <<-1>>, <<0>>, <<1>>}

DefaultTtls == {0, 1}

\* float('inf'): an expiry that no instant exceeds (instants are >= 0)
Inf == -1

\* The empty string: no key.
NoKey == <<>>

\* Nothing returned yet.
NoRet == [val |-> None, exc |-> "none", log |-> "none", evicted |-> NoKey,
          replaced |-> FALSE, unexpired |-> FALSE]

\* x in list
Contains(list, x) == \E i \in DOMAIN list : list[i] = x

\* list.remove(x) for a list that holds x: drops its first occurrence
list_remove(list, x) ==
    LET i == CHOOSE j \in DOMAIN list :
                 list[j] = x /\ \A m \in 1..(j - 1) : list[m] # x
    IN  SubSeq(list, 1, i - 1) \o SubSeq(list, i + 1, Len(list))

\* del d[key]
dict_del(d, key) == [k \in DOMAIN d \ {key} |-> d[k]]

\* d[key] = entry
dict_put(d, key, entry) ==
    [k \in DOMAIN d \cup {key} |-> IF k = key THEN entry ELSE d[k]]

\* Mutant of CacheEntry.__init__: ttl = 0 gives the expiry t.
CacheEntry_zero_ttl_expires(value, ttl, t) ==
    [value |-> value, expiry |-> IF ttl >= 0 THEN t + ttl ELSE Inf]

\* Mutant of CacheEntry.__init__: a negative ttl gives an entry that expires
\* at the instant it is stored.
CacheEntry_negative_ttl_expires(value, ttl, t) ==
    [value |-> value,
     expiry |-> IF ttl > 0 THEN t + ttl ELSE IF ttl = 0 THEN Inf ELSE t]

\* CacheEntry.__init__ at instant t
CacheEntry(value, ttl, t) ==
    [value |-> value, expiry |-> IF ttl > 0 THEN t + ttl ELSE Inf]

\* Mutant of is_expired: expired already at the expiry instant.
is_expired_at_expiry(entry, t) ==
    entry.expiry # Inf /\ t >= entry.expiry

\* CacheEntry.is_expired at instant t
is_expired(entry, t) ==
    entry.expiry # Inf /\ t > entry.expiry

\* The outcome of a Cache call: the fields after it, the value returned, the
\* exception raised ("none" when it returns), the last logger.debug message
\* and the key named by "Cache evicted (LRU)".
Outcome(cache, order, hits, misses, val, exc, log, evicted) ==
    [cache |-> cache, order |-> order, hits |-> hits, misses |-> misses,
     val |-> val, exc |-> exc, log |-> log, evicted |-> evicted]

\* A call that raises exc with the fields as given.
Raises(cache, order, exc) ==
    Outcome(cache, order, _hits, _misses, None, exc, "none", NoKey)

\* Mutant of get: a hit leaves the recency order as it is.
get_without_touch(key) ==
    IF key \notin DOMAIN _cache
    THEN Outcome(_cache, _access_order, _hits, _misses + 1, None, "none",
                 "miss", NoKey)
    ELSE IF is_expired(_cache[key], now)
    THEN Outcome(dict_del(_cache, key), list_remove(_access_order, key),
                 _hits, _misses + 1, None, "none", "expired", NoKey)
    ELSE Outcome(_cache, _access_order, _hits + 1, _misses,
                 _cache[key].value, "none", "hit", NoKey)

\* Mutant of get: an expired entry is removed without counting a miss.
get_expiry_uncounted(key) ==
    IF key \notin DOMAIN _cache
    THEN Outcome(_cache, _access_order, _hits, _misses + 1, None, "none",
                 "miss", NoKey)
    ELSE IF is_expired(_cache[key], now)
    THEN Outcome(dict_del(_cache, key), list_remove(_access_order, key),
                 _hits, _misses, None, "none", "expired", NoKey)
    ELSE Outcome(_cache, Append(list_remove(_access_order, key), key),
                 _hits + 1, _misses, _cache[key].value, "none", "hit", NoKey)

\* Mutant of get: a stored None is taken for no entry and counted as a miss.
get_none_is_miss(key) ==
    IF \/ key \notin DOMAIN _cache
       \/ (~is_expired(_cache[key], now) /\ _cache[key].value = None)
    THEN Outcome(_cache, _access_order, _hits, _misses + 1, None, "none",
                 "miss", NoKey)
    ELSE IF is_expired(_cache[key], now)
    THEN Outcome(dict_del(_cache, key), list_remove(_access_order, key),
                 _hits, _misses + 1, None, "none", "expired", NoKey)
    ELSE Outcome(_cache, Append(list_remove(_access_order, key), key),
                 _hits + 1, _misses, _cache[key].value, "none", "hit", NoKey)

\* Cache.get(key)
get(key) ==
    IF key \notin DOMAIN _cache
    THEN Outcome(_cache, _access_order, _hits, _misses + 1, None, "none",
                 "miss", NoKey)
    ELSE IF is_expired(_cache[key], now)
    THEN IF Contains(_access_order, key)
         THEN Outcome(dict_del(_cache, key), list_remove(_access_order, key),
                      _hits, _misses + 1, None, "none", "expired", NoKey)
         ELSE Raises(dict_del(_cache, key), _access_order, "ValueError")
    ELSE IF Contains(_access_order, key)
         THEN Outcome(_cache, Append(list_remove(_access_order, key), key),
                      _hits + 1, _misses, _cache[key].value, "none", "hit",
                      NoKey)
         ELSE Raises(_cache, _access_order, "ValueError")

\* Mutant of set: no eviction when the cache is full.
set_without_eviction(key, value, ttl) ==
    LET ttl1 == IF ttl = <<>> THEN default_ttl ELSE ttl[1]
        order1 == IF key \in DOMAIN _cache
                  THEN list_remove(_access_order, key) ELSE _access_order
    IN  Outcome(dict_put(_cache, key, CacheEntry(value, ttl1, now)),
                Append(order1, key), _hits, _misses, None, "none", "stored",
                NoKey)

\* Mutant of set: a full cache evicts its least recently used key also when
\* the key being set is already stored.
set_evicts_known_key(key, value, ttl) ==
    LET ttl1 == IF ttl = <<>> THEN default_ttl ELSE ttl[1]
        known == key \in DOMAIN _cache
        order1 == IF known THEN list_remove(_access_order, key)
                           ELSE _access_order
        evict == Cardinality(DOMAIN _cache) >= max_size /\ order1 # <<>>
        lru_key == order1[1]
        order2 == IF evict THEN Tail(order1) ELSE order1
        cache2 == IF evict THEN dict_del(_cache, lru_key) ELSE _cache
    IN  Outcome(dict_put(cache2, key, CacheEntry(value, ttl1, now)),
                Append(order2, key), _hits, _misses, None, "none",
                "stored", IF evict THEN lru_key ELSE NoKey)

\* Mutant of set: a full cache evicts an expired entry, the least recently
\* used one, when there is one, and the head of the recency list otherwise.
set_evicts_expired_first(key, value, ttl) ==
    LET ttl1 == IF ttl = <<>> THEN default_ttl ELSE ttl[1]
        known == key \in DOMAIN _cache
        order1 == IF known THEN list_remove(_access_order, key)
                           ELSE _access_order
        evict == Cardinality(DOMAIN _cache) >= max_size /\ ~known
                    /\ order1 # <<>>
        gone == SelectSeq(order1, LAMBDA k : is_expired(_cache[k], now))
        lru_key == IF gone # <<>> THEN gone[1] ELSE order1[1]
        order2 == IF evict THEN list_remove(order1, lru_key) ELSE order1
        cache2 == IF evict THEN dict_del(_cache, lru_key) ELSE _cache
    IN  Outcome(dict_put(cache2, key, CacheEntry(value, ttl1, now)),
                Append(order2, key), _hits, _misses, None, "none",
                "stored", IF evict THEN lru_key ELSE NoKey)

\* Cache.set(key, value, ttl)
set(key, value, ttl) ==
    LET ttl1 == IF ttl = <<>> THEN default_ttl ELSE ttl[1]
        known == key \in DOMAIN _cache
        order1 == IF known THEN list_remove(_access_order, key)
                           ELSE _access_order
        evict == Cardinality(DOMAIN _cache) >= max_size /\ ~known
        lru_key == order1[1]
        order2 == IF evict THEN Tail(order1) ELSE order1
        cache2 == IF evict THEN dict_del(_cache, lru_key) ELSE _cache
    IN  IF known /\ ~Contains(_access_order, key)
        THEN Raises(_cache, _access_order, "ValueError")
        ELSE IF evict /\ order1 = <<>>
        THEN \* self._access_order.pop(0) on an empty list
             Raises(_cache, order1, "IndexError")
        ELSE IF evict /\ lru_key \notin DOMAIN _cache
        THEN Raises(_cache, order2, "KeyError")
        ELSE Outcome(dict_put(cache2, key, CacheEntry(value, ttl1, now)),
                     Append(order2, key), _hits, _misses, None, "none",
                     "stored", IF evict THEN lru_key ELSE NoKey)

\* Mutant of delete: `del self._cache[key]` without the membership test.
delete_unguarded(key) ==
    IF key \in DOMAIN _cache
    THEN Outcome(dict_del(_cache, key), list_remove(_access_order, key),
                 _hits, _misses, None, "none", "deleted", NoKey)
    ELSE Raises(_cache, _access_order, "KeyError")

\* Mutant of delete: the recency record of the key is kept.
delete_keeps_order(key) ==
    IF key \in DOMAIN _cache
    THEN Outcome(dict_del(_cache, key), _access_order, _hits, _misses, None,
                 "none", "deleted", NoKey)
    ELSE Outcome(_cache, _access_order, _hits, _misses, None, "none", "none",
                 NoKey)

\* Cache.delete(key)
delete(key) ==
    IF key \in DOMAIN _cache
    THEN IF Contains(_access_order, key)
         THEN Outcome(dict_del(_cache, key), list_remove(_access_order, key),
                      _hits, _misses, None, "none", "deleted", NoKey)
         ELSE Raises(dict_del(_cache, key), _access_order, "ValueError")
    ELSE Outcome(_cache, _access_order, _hits, _misses, None, "none", "none",
                 NoKey)

\* Mutant of clear: the counters start again from 0.
clear_resets_counters ==
    Outcome(<<>>, <<>>, 0, 0, None, "none", "cleared", NoKey)

\* Cache.clear()
clear ==
    Outcome(<<>>, <<>>, _hits, _misses, None, "none", "cleared", NoKey)

\* The dict Cache.get_stats() returns in the current state; hit_rate_percent
\* is a fraction <<numerator, denominator>>.
stats ==
    LET total_requests == _hits + _misses
    IN  [size |-> Cardinality(DOMAIN _cache),
         max_size |-> max_size,
         hits |-> _hits,
         misses |-> _misses,
         total_requests |-> total_requests,
         hit_rate_percent |-> IF total_requests > 0
                              THEN <<_hits * 100, total_requests>>
                              ELSE <<0, 1>>]

\* History: key becomes the most recently used one.
Used(key) == Append(SelectSeq(c_used, LAMBDA k : k # key), key)

\* History: the keys of `used` that are still stored after the call.
Stored(cache, used) == SelectSeq(used, LAMBDA k : k \in DOMAIN cache)

\* History: the records of the keys still stored after the call.
Meta(cache, meta) == [k \in DOMAIN cache |-> meta[k]]

\* History: the record of a set of `value` with effective ttl `ttl` made now.
SetAt(value, ttl) == [at |-> now, ttl |-> ttl, value |-> value]

\* The fields of the Cache take the values of outcome r; replaced tells
\* whether the call was a set of a key that was already stored, unexpired
\* whether the entry it evicted had not expired.
Changes(r, replaced) ==
    /\ _cache' = r.cache
    /\ _access_order' = r.order
    /\ _hits' = r.hits
    /\ _misses' = r.misses
    /\ c_ret' = [val |-> r.val, exc |-> r.exc, log |-> r.log,
                 evicted |-> r.evicted, replaced |-> replaced,
                 unexpired |-> /\ r.evicted \in DOMAIN _cache
                               /\ ~is_expired(_cache[r.evicted], now)]

\* The same for a call that is not a set of a stored key.
Becomes(r) == Changes(r, FALSE)

CacheInit ==
    /\ max_size \in 0..MaxSize
    /\ default_ttl \in DefaultTtls
    /\ _cache = <<>>
    /\ _access_order = <<>>
    /\ _hits = 0
    /\ _misses = 0
    /\ c_ret = NoRet
    /\ c_used = <<>>
    /\ c_meta = <<>>
    /\ c_gets = 0

\* A Cache that nothing calls.
CacheIdle ==
    /\ max_size = 0
    /\ default_ttl = 0
    /\ _cache = <<>>
    /\ _access_order = <<>>
    /\ _hits = 0
    /\ _misses = 0
    /\ c_ret = NoRet
    /\ c_used = <<>>
    /\ c_meta = <<>>
    /\ c_gets = 0

\* The Cache and its history after get(key) with outcome r.
AfterGet(key, r) ==
    /\ Becomes(r)
    /\ c_used' = Stored(r.cache, IF r.hits = _hits + 1 THEN Used(key)
                                                       ELSE c_used)
    /\ c_meta' = Meta(r.cache, c_meta)
    /\ c_gets' = IF r.exc = "none" THEN c_gets + 1 ELSE c_gets

\* The Cache and its history after set(key, value, ttl) with outcome r.
AfterSet(key, value, ttl, r) ==
    /\ Changes(r, r.exc = "none" /\ key \in DOMAIN _cache)
    /\ c_used' = Stored(r.cache, IF r.exc = "none" THEN Used(key) ELSE c_used)
    /\ c_meta' = IF r.exc = "none"
                 THEN Meta(r.cache,
                           dict_put(c_meta, key,
                               SetAt(value,
                                     IF ttl = <<>> THEN default_ttl
                                                   ELSE ttl[1])))
                 ELSE Meta(r.cache, c_meta)
    /\ UNCHANGED c_gets

Cache_get(key) ==
    /\ _hits + _misses < MaxGets
    /\ \E r \in {get(key)} : AfterGet(key, r)
    /\ UNCHANGED <<now, max_size, default_ttl, rl_vars, key_vars, wrap_vars,
                   lk_vars, http_vars>>

Cache_set(key, value, ttl) ==
    /\ \E r \in {set(key, value, ttl)} : AfterSet(key, value, ttl, r)
    /\ UNCHANGED <<now, max_size, default_ttl, rl_vars, key_vars, wrap_vars,
                   lk_vars, http_vars>>

Cache_delete(key) ==
    /\ \E r \in {delete(key)} :
           /\ Becomes(r)
           /\ c_used' = Stored(r.cache, c_used)
           /\ c_meta' = Meta(r.cache, c_meta)
           /\ UNCHANGED c_gets
    /\ UNCHANGED <<now, max_size, default_ttl, rl_vars, key_vars, wrap_vars,
                   lk_vars, http_vars>>

Cache_clear ==
    /\ Becomes(clear)
    /\ c_used' = <<>>
    /\ c_meta' = <<>>
    /\ UNCHANGED c_gets
    /\ UNCHANGED <<now, max_size, default_ttl, rl_vars, key_vars, wrap_vars,
                   lk_vars, http_vars>>

Cache_get_stats ==
    /\ c_ret' = [NoRet EXCEPT !.log = "stats"]
    /\ UNCHANGED <<now, max_size, default_ttl, _cache, _access_order, _hits,
                   _misses, c_used, c_meta, c_gets, rl_vars, key_vars,
                   wrap_vars,
                   lk_vars, http_vars>>

\* The clock advances by one second.
CacheTick ==
    /\ now < MaxNow
    /\ now' = now + 1
    /\ UNCHANGED <<rl_vars, cache_vars, key_vars, wrap_vars,
                   lk_vars, http_vars>>

----------------------------------------------------------------------------
(* cache_key *)

\* Python values: None, ints and strings (a string is its characters).
PyNone == [type |-> "NoneType", n |-> 0, s |-> <<>>]

PyInt(n) == [type |-> "int", n |-> n, s |-> <<>>]

PyStr(s) == [type |-> "str", n |-> 0, s |-> s]

\* The values passed as arguments.
ArgValues ==
    {PyNone, PyInt(1), PyStr(<<"1">>), PyStr(<<"a", ":", "b">>), PyStr(<<"b">>)}

\* The names of the named arguments.
ArgNames == {<<"a">>, <<"b">>, <<"a", "b">>}

\* ord(c) for the characters the model uses
ord(c) ==
    CASE c = "0" -> 48 [] c = "1" -> 49 [] c = "2" -> 50 [] c = "3" -> 51
      [] c = "4" -> 52 [] c = "5" -> 53 [] c = "6" -> 54 [] c = "7" -> 55
      [] c = "8" -> 56 [] c = "9" -> 57 [] c = ":" -> 58 [] c = "=" -> 61
      [] c = "N" -> 78 [] c = "a" -> 97 [] c = "b" -> 98 [] c = "e" -> 101
      [] c = "f" -> 102 [] c = "n" -> 110 [] c = "o" -> 111

\* x < y for strings: by code points, a proper prefix first
RECURSIVE str_lt(_, _)
str_lt(x, y) ==
    IF y = <<>> THEN FALSE
    ELSE IF x = <<>> THEN TRUE
    ELSE IF ord(x[1]) # ord(y[1]) THEN ord(x[1]) < ord(y[1])
    ELSE str_lt(Tail(x), Tail(y))

\* str(n) for an int n >= 0: its decimal digits
RECURSIVE str_int(_)
str_int(n) ==
    LET digit == <<"0", "1", "2", "3", "4", "5", "6", "7", "8", "9">>
    IN  IF n < 10 THEN <<digit[n + 1]>>
        ELSE str_int(n \div 10) \o <<digit[(n % 10) + 1]>>

\* str(v), which is also how an f-string formats v
str(v) ==
    CASE v.type = "int" -> str_int(v.n)
      [] v.type = "str" -> v.s
      [] v.type = "NoneType" -> <<"N", "o", "n", "e">>

\* sep.join(parts)
RECURSIVE join(_, _)
join(sep, parts) ==
    IF parts = <<>> THEN <<>>
    ELSE IF Len(parts) = 1 THEN parts[1]
    ELSE parts[1] \o sep \o join(sep, Tail(parts))

\* list with x inserted before its first element that is greater than x
RECURSIVE insert_sorted(_, _)
insert_sorted(x, list) ==
    IF list = <<>> THEN <<x>>
    ELSE IF str_lt(x, list[1]) THEN <<x>> \o list
    ELSE <<list[1]>> \o insert_sorted(x, Tail(list))

\* Mutant of sorted: the list as it is.
unsorted(list) == list

\* sorted(list) for a list of strings
RECURSIVE sorted(_)
sorted(list) ==
    IF list = <<>> THEN <<>>
    ELSE insert_sorted(list[Len(list)], sorted(SubSeq(list, 1, Len(list) - 1)))

\* kwargs.keys(): the names in the order they were passed
keys(kwargs) == [i \in DOMAIN kwargs |-> kwargs[i].k]

\* kwargs[k]
kwargs_get(kwargs, k) ==
    kwargs[CHOOSE i \in DOMAIN kwargs : kwargs[i].k = k].v

\* [str(arg) for arg in args if arg is not None]
RECURSIVE positional_parts(_)
positional_parts(args) ==
    IF args = <<>> THEN <<>>
    ELSE (IF args[1] # PyNone THEN <<str(args[1])>> ELSE <<>>)
         \o positional_parts(Tail(args))

\* for k in names: v = kwargs[k]; if v is not None: key_parts.append(f"{k}={v}")
RECURSIVE named_parts(_, _)
named_parts(names, kwargs) ==
    IF names = <<>> THEN <<>>
    ELSE (IF kwargs_get(kwargs, names[1]) # PyNone
          THEN <<names[1] \o <<"=">> \o str(kwargs_get(kwargs, names[1]))>>
          ELSE <<>>)
         \o named_parts(Tail(names), kwargs)

\* cache_key(*args, **kwargs)
cache_key(args, kwargs) ==
    join(<<":">>, positional_parts(args)
                  \o named_parts(sorted(keys(kwargs)), kwargs))

\* The sequences over S of length at most n
SeqsUpTo(S, n) == UNION {[1..m -> S] : m \in 0..n}

\* The **kwargs a call can pass: named values, no name twice.
KwargsUpTo(n) ==
    {kw \in SeqsUpTo([k : ArgNames, v : ArgValues], n) :
        \A i, j \in DOMAIN kw : i # j => kw[i].k # kw[j].k}

KeyInit ==
    /\ ck_args \in SeqsUpTo(ArgValues, MaxArgs)
    /\ ck_kwargs \in KwargsUpTo(MaxKwargs)
    /\ ck_key = NoKey
    /\ ck_done = FALSE

\* No call of cache_key.
KeyIdle ==
    /\ ck_args = <<>>
    /\ ck_kwargs = <<>>
    /\ ck_key = NoKey
    /\ ck_done = FALSE

\* One call of cache_key.
CacheKeyCall ==
    /\ ~ck_done
    /\ ck_key' = cache_key(ck_args, ck_kwargs)
    /\ ck_done' = TRUE
    /\ UNCHANGED <<now, ck_args, ck_kwargs, rl_vars, cache_vars, wrap_vars,
                   lk_vars, http_vars>>

----------------------------------------------------------------------------
(* cached: the wrapper around a function f, @cached(cache_instance) *)

\* The calls the threads make: f(1), f("1"), f(1, None), f("a", "b"),
\* f("a:b") and f(2).
Calls ==
    <<[args |-> <<PyInt(1)>>, kwargs |-> <<>>],
      [args |-> <<PyStr(<<"1">>)>>, kwargs |-> <<>>],
      [args |-> <<PyInt(1), PyNone>>, kwargs |-> <<>>],
      [args |-> <<PyStr(<<"a">>), PyStr(<<"b">>)>>, kwargs |-> <<>>],
      [args |-> <<PyStr(<<"a", ":", "b">>)>>, kwargs |-> <<>>],
      [args |-> <<PyInt(2)>>, kwargs |-> <<>>]>>

\* What f computes for each call, when it does not return None: a value that
\* no other call gives.
Results == <<"r1", "r2", "r3", "r4", "r5", "r6">>

\* func(*args, **kwargs) for call i
func(i) == IF i \in w_none THEN None ELSE Results[i]

\* The arguments of the decorator: ttl=None, key_prefix=""
wrapper_ttl == <<>>

key_prefix == <<>>

\* func.__name__
func_name == <<"f">>

\* f"{key_prefix}:{func.__name__}:{cache_key(*args, **kwargs)}" for call i
wrapper_key(i) ==
    key_prefix \o <<":">> \o func_name \o <<":">>
        \o cache_key(Calls[i].args, Calls[i].kwargs)

NoCall == [call |-> 0, val |-> None, exc |-> "none"]

WrapInit ==
    /\ w_none \in {{}, {1}}
    /\ w_pc = [t \in Threads |-> "idle"]
    /\ w_call = [t \in Threads |-> 0]
    /\ w_ret = [t \in Threads |-> NoCall]
    /\ w_runs = [i \in DOMAIN Calls |-> 0]

\* No wrapped function.
WrapIdle ==
    /\ w_none = {}
    /\ w_pc = [t \in Threads |-> "idle"]
    /\ w_call = [t \in Threads |-> 0]
    /\ w_ret = [t \in Threads |-> NoCall]
    /\ w_runs = [i \in DOMAIN Calls |-> 0]

\* wrapper, from the call to the return of the cached value or, when
\* cache_instance.get returned None, to the call of func.
wrapper_lookup(t, i) ==
    /\ w_pc[t] = "idle"
    /\ _hits + _misses < MaxLookups
    /\ \E r \in {get(wrapper_key(i))} :
          /\ AfterGet(wrapper_key(i), r)
          /\ IF r.val # None
             THEN /\ w_ret' = [w_ret EXCEPT ![t] =
                                  [call |-> i, val |-> r.val, exc |-> "none"]]
                  /\ UNCHANGED <<w_pc, w_call>>
             ELSE /\ w_pc' = [w_pc EXCEPT ![t] = "missed"]
                  /\ w_call' = [w_call EXCEPT ![t] = i]
                  /\ w_ret' = [w_ret EXCEPT ![t] = NoCall]
    /\ UNCHANGED <<now, max_size, default_ttl, w_none, w_runs, rl_vars, key_vars,
                   lk_vars, http_vars>>

\* wrapper, the rest: func runs, its result is stored and returned (or the
\* exception of cache_instance.set reaches the caller).
wrapper_store(t) ==
    /\ w_pc[t] = "missed"
    /\ LET i == w_call[t]
           result == func(i)
       IN  /\ w_runs' = [w_runs EXCEPT ![i] = @ + 1]
           /\ \E r \in {set(wrapper_key(i), result, wrapper_ttl)} :
                 /\ AfterSet(wrapper_key(i), result, wrapper_ttl, r)
                 /\ w_ret' = [w_ret EXCEPT ![t] =
                                 [call |-> i,
                                  val |-> IF r.exc = "none" THEN result ELSE None,
                                  exc |-> r.exc]]
    /\ w_pc' = [w_pc EXCEPT ![t] = "idle"]
    /\ w_call' = [w_call EXCEPT ![t] = 0]
    /\ UNCHANGED <<now, max_size, default_ttl, w_none, rl_vars, key_vars,
                   lk_vars, http_vars>>

----------------------------------------------------------------------------
(* Cache methods, statement by statement, under Cache._lock *)

\* The dict of get_stats before any call of it.
NoCacheStats ==
    [size |-> 0, max_size |-> 0, hits |-> 0, misses |-> 0,
     total_requests |-> 0, hit_rate_percent |-> <<0, 1>>]

\* No CacheEntry held in a local.
NoEntry == [value |-> None, expiry |-> Inf]

\* A thread outside every Cache method.
Outside ==
    [pc |-> "idle", key |-> NoKey, value |-> None, ttl |-> 0,
     entry |-> NoEntry, lru_key |-> NoKey]

\* Mutant of _lock_available: the lock excludes nobody.
_lock_excludes_nobody == TRUE

\* `with self._lock` lets the caller in only while no thread holds the lock.
_lock_available == _lock = "free"

LockInit ==
    /\ _lock = "free"
    /\ th = [t \in Threads |-> Outside]
    /\ lin = [t |-> "none", out |-> clear, stats |-> NoCacheStats]

\* No thread runs the methods statement by statement.
LockIdle ==
    /\ _lock = "free"
    /\ th = [t \in Threads |-> Outside]
    /\ lin = [t |-> "none", out |-> clear, stats |-> NoCacheStats]

\* Thread t enters a method at statement pc with the given arguments: it takes
\* the lock.  out and st are what the whole call gives on the state as it is.
Enters(t, pc, key, value, ttl, out, st) ==
    /\ th[t].pc = "idle"
    /\ _lock_available
    /\ _lock' = t
    /\ th' = [th EXCEPT ![t] = [Outside EXCEPT
                  !.pc = pc, !.key = key, !.value = value, !.ttl = ttl]]
    /\ lin' = [t |-> t, out |-> out, stats |-> st]
    /\ UNCHANGED <<now, cache_vars, rl_vars, key_vars, wrap_vars, http_vars>>

\* One statement of thread t: the fields of the Cache and the thread's record
\* after it.  A thread that leaves the method (return or exception) releases
\* the lock, and ret is what the call gave it.
Statement(t, cache, order, hits, misses, rec, ret) ==
    /\ _cache' = cache
    /\ _access_order' = order
    /\ _hits' = hits
    /\ _misses' = misses
    /\ th' = [th EXCEPT ![t] = rec]
    /\ _lock' = IF rec.pc = "idle" THEN "free" ELSE _lock
    /\ c_ret' = IF rec.pc = "idle" THEN ret ELSE c_ret
    /\ UNCHANGED <<now, max_size, default_ttl, c_used, c_meta, c_gets, lin,
                   rl_vars, key_vars, wrap_vars, http_vars>>

\* The thread goes on to statement pc.
GoesTo(t, pc) == [th[t] EXCEPT !.pc = pc]

\* What a call that returns val gives, its last logger.debug message being log.
Returned(val, log, evicted) ==
    [val |-> val, exc |-> "none", log |-> log, evicted |-> evicted,
     replaced |-> FALSE, unexpired |-> FALSE]

\* What a call that raises exc gives.
Raised(exc) ==
    [val |-> None, exc |-> exc, log |-> "none", evicted |-> NoKey,
     replaced |-> FALSE, unexpired |-> FALSE]

\* Cache.get(key): with self._lock
get_enter(t, key) ==
    /\ _hits + _misses < MaxGets
    /\ Enters(t, "get_lookup", key, None, 0, get(key), NoCacheStats)

\* Cache.get, the statements inside the lock
get_body(t) ==
    LET key == th[t].key
    IN  \/ /\ th[t].pc = "get_lookup"
           /\ IF key \notin DOMAIN _cache
              THEN Statement(t, _cache, _access_order, _hits, _misses + 1,
                             Outside, Returned(None, "miss", NoKey))
              ELSE Statement(t, _cache, _access_order, _hits, _misses,
                       [th[t] EXCEPT
                           !.entry = _cache[key],
                           !.pc = IF is_expired(_cache[key], now)
                                  THEN "get_expired_del"
                                  ELSE "get_remove"], c_ret)
        \/ /\ th[t].pc = "get_expired_del"
           /\ IF key \in DOMAIN _cache
              THEN Statement(t, dict_del(_cache, key), _access_order, _hits,
                             _misses, GoesTo(t, "get_expired_remove"), c_ret)
              ELSE Statement(t, _cache, _access_order, _hits, _misses,
                             Outside, Raised("KeyError"))
        \/ /\ th[t].pc = "get_expired_remove"
           /\ IF Contains(_access_order, key)
              THEN Statement(t, _cache, list_remove(_access_order, key),
                             _hits, _misses + 1, Outside,
                             Returned(None, "expired", NoKey))
              ELSE Statement(t, _cache, _access_order, _hits, _misses,
                             Outside, Raised("ValueError"))
        \/ /\ th[t].pc = "get_remove"
           /\ IF Contains(_access_order, key)
              THEN Statement(t, _cache, list_remove(_access_order, key),
                             _hits, _misses, GoesTo(t, "get_append"), c_ret)
              ELSE Statement(t, _cache, _access_order, _hits, _misses,
                             Outside, Raised("ValueError"))
        \/ /\ th[t].pc = "get_append"
           /\ Statement(t, _cache, Append(_access_order, key), _hits + 1,
                        _misses, Outside,
                        Returned(th[t].entry.value, "hit", NoKey))

\* Cache.set(key, value, ttl): with self._lock, and ttl = default_ttl for None
set_enter(t, key, value, ttl) ==
    Enters(t, "set_remove", key, value,
           IF ttl = <<>> THEN default_ttl ELSE ttl[1],
           set(key, value, ttl), NoCacheStats)

\* Cache.set, the statements inside the lock
set_body(t) ==
    LET key == th[t].key
    IN  \/ /\ th[t].pc = "set_remove"
           /\ IF key \in DOMAIN _cache
              THEN IF Contains(_access_order, key)
                   THEN Statement(t, _cache, list_remove(_access_order, key),
                                  _hits, _misses, GoesTo(t, "set_evict"), c_ret)
                   ELSE Statement(t, _cache, _access_order, _hits, _misses,
                                  Outside, Raised("ValueError"))
              ELSE Statement(t, _cache, _access_order, _hits, _misses,
                             GoesTo(t, "set_evict"), c_ret)
        \/ /\ th[t].pc = "set_evict"
           /\ IF Cardinality(DOMAIN _cache) >= max_size
                 /\ key \notin DOMAIN _cache
              THEN IF _access_order = <<>>
                   THEN Statement(t, _cache, _access_order, _hits, _misses,
                                  Outside, Raised("IndexError"))
                   ELSE Statement(t, _cache, Tail(_access_order), _hits,
                            _misses,
                            [th[t] EXCEPT !.lru_key = _access_order[1],
                                          !.pc = "set_evict_del"], c_ret)
              ELSE Statement(t, _cache, _access_order, _hits, _misses,
                             GoesTo(t, "set_store"), c_ret)
        \/ /\ th[t].pc = "set_evict_del"
           /\ IF th[t].lru_key \in DOMAIN _cache
              THEN Statement(t, dict_del(_cache, th[t].lru_key),
                             _access_order, _hits, _misses,
                             GoesTo(t, "set_store"), c_ret)
              ELSE Statement(t, _cache, _access_order, _hits, _misses,
                             Outside, Raised("KeyError"))
        \/ /\ th[t].pc = "set_store"
           /\ Statement(t, dict_put(_cache, key,
                               CacheEntry(th[t].value, th[t].ttl, now)),
                        _access_order, _hits, _misses, GoesTo(t, "set_append"), c_ret)
        \/ /\ th[t].pc = "set_append"
           /\ Statement(t, _cache, Append(_access_order, key), _hits, _misses,
                        Outside, Returned(None, "stored", th[t].lru_key))

\* Cache.delete(key): with self._lock
delete_enter(t, key) ==
    Enters(t, "delete_del", key, None, 0, delete(key), NoCacheStats)

\* Cache.delete, the statements inside the lock
delete_body(t) ==
    LET key == th[t].key
    IN  \/ /\ th[t].pc = "delete_del"
           /\ IF key \in DOMAIN _cache
              THEN Statement(t, dict_del(_cache, key), _access_order, _hits,
                             _misses, GoesTo(t, "delete_remove"), c_ret)
              ELSE Statement(t, _cache, _access_order, _hits, _misses,
                             Outside, Returned(None, "none", NoKey))
        \/ /\ th[t].pc = "delete_remove"
           /\ IF Contains(_access_order, key)
              THEN Statement(t, _cache, list_remove(_access_order, key),
                             _hits, _misses, Outside,
                             Returned(None, "deleted", NoKey))
              ELSE Statement(t, _cache, _access_order, _hits, _misses,
                             Outside, Raised("ValueError"))

\* Cache.clear(): with self._lock
clear_enter(t) ==
    Enters(t, "clear_cache", NoKey, None, 0, clear, NoCacheStats)

\* Cache.clear, the statements inside the lock
clear_body(t) ==
    \/ /\ th[t].pc = "clear_cache"
       /\ Statement(t, <<>>, _access_order, _hits, _misses,
                    GoesTo(t, "clear_order"), c_ret)
    \/ /\ th[t].pc = "clear_order"
       /\ Statement(t, _cache, <<>>, _hits, _misses, Outside,
                    Returned(None, "cleared", NoKey))

\* Cache.get_stats(): with self._lock
get_stats_enter(t) ==
    Enters(t, "stats_total", NoKey, None, 0,
           Outcome(_cache, _access_order, _hits, _misses, None, "none",
                   "stats", NoKey),
           stats)

\* Cache.get_stats, the statement inside the lock: the dict is built
get_stats_body(t) ==
    /\ th[t].pc = "stats_total"
    /\ Statement(t, _cache, _access_order, _hits, _misses,
                 Outside,
                 Returned(None, "stats", NoKey))

\* The clock advances by one second.  A call reads the clock at most once
\* (is_expired in get, CacheEntry in set), so the instant of that reading is
\* the instant of the whole call, and the clock is moved between calls.
LockedTick ==
    /\ _lock = "free"
    /\ \A t \in Threads : th[t].pc = "idle"
    /\ CacheTick

----------------------------------------------------------------------------
(* The client (YnabPy) and its HTTP wrapper (http_utils) *)

HttpMethods == {"get", "post", "patch", "put", "delete"}

Endpoints == {<<"/", "u">>, <<"/", "b">>}

\* A thread outside every method of the wrapper.
NoHttpCall == [pc |-> "idle", method |-> "none", endpoint |-> <<>>, waits |-> 0]

\* The status recorded for a call that got no response.
NoStatus == 0

\* Before any call of the wrapper has ended.
NoHttpRet == [status |-> NoStatus, exc |-> "none", retry_after |-> <<>>]

\* History: no call of the wrapper yet.  sent: the network requests issued;
\* got: the endpoints for which a get has returned a response at the current
\* instant.
NoHttpCalls == [sent |-> 0, got |-> {}]

\* The calls of the wrapper that have started.
HttpCalls == h_hist.sent + Cardinality({t \in Threads : h[t].pc # "idle"})

\* Before any pass-through call of the client.
NoClRet == [call |-> "none", val |-> <<>>, exc |-> "none"]

\* No client: the RateLimiter, the Cache and the helpers are used directly.
HttpIdle ==
    /\ enable_rate_limiting = FALSE
    /\ enable_caching = FALSE
    /\ _requests_remaining = 0
    /\ h = [t \in Threads |-> NoHttpCall]
    /\ h_ret = NoHttpRet
    /\ h_hist = NoHttpCalls
    /\ cl_ret = NoClRet

\* YnabPy.__init__: the flags are the caller's choice.
ClientInit ==
    /\ enable_rate_limiting \in BOOLEAN
    /\ enable_caching \in BOOLEAN
    /\ _requests_remaining = 0
    /\ h = [t \in Threads |-> NoHttpCall]
    /\ h_ret = NoHttpRet
    /\ h_hist = NoHttpCalls
    /\ cl_ret = NoClRet

Digits == {"0", "1", "2", "3", "4", "5", "6", "7", "8", "9"}

\* Whether int(s) returns for the string s: the strings of the model are
\* made of digits, letters, "/" and "," only.
IsInt(s) == s # <<>> /\ \A i \in DOMAIN s : s[i] \in Digits

\* int(s) for a string of digits
RECURSIVE int(_)
int(s) ==
    IF s = <<>> THEN 0
    ELSE 10 * int(SubSeq(s, 1, Len(s) - 1))
         + (CHOOSE d \in 0..9 : ToString(d) = s[Len(s)])

\* s.split(sep)
RECURSIVE split(_, _)
split(s, sep) ==
    IF \E i \in DOMAIN s : s[i] = sep
    THEN LET i == CHOOSE i \in DOMAIN s :
                      s[i] = sep /\ \A j \in 1..(i - 1) : s[j] # sep
         IN  <<SubSeq(s, 1, i - 1)>> \o split(SubSeq(s, i + 1, Len(s)), sep)
    ELSE <<s>>

\* The values of the x-rate-limit header of a response: <<>> when the header
\* is absent, else <<the string>>.
RateLimitHeaders ==
    {<<>>, <<<<"1", "/", "2">>>>, <<<<"1">>>>, <<<<"a", "/", "2">>>>}

\* The values of the Retry-After header: absent, a number of seconds, the
\* empty string, an HTTP date.
RetryAfterHeaders ==
    {<<>>, <<<<"3", "0">>>>, <<<<>>>>, <<<<"W", "e", "d", ",">>>>}

Statuses == {200, 400, 401, 403, 404, 409, 429, 500, 503}

\* The responses a request can get; Retry-After comes with status 429 only.
Responses ==
    {r \in [status_code : Statuses, x_rate_limit : RateLimitHeaders,
            retry_after : RetryAfterHeaders] :
        r.status_code # 429 => r.retry_after = <<>>}

\* requests.Response.ok
ok(response) == ~(response.status_code >= 400 /\ response.status_code < 600)

\* http_utils._update_rate_limit_from_headers: the exception it raises
\* ("none" when it returns) and _requests_remaining after it.
_update_rate_limit_from_headers(response) ==
    IF response.x_rate_limit # <<>>
    THEN LET parts == split(response.x_rate_limit[1], "/")
         IN  \* used, total = map(int, parts)
             IF Len(parts) = 2 /\ IsInt(parts[1]) /\ IsInt(parts[2])
             THEN [exc |-> "none", remaining |-> int(parts[2]) - int(parts[1])]
             ELSE [exc |-> "ValueError", remaining |-> _requests_remaining]
    ELSE [exc |-> "none", remaining |-> _requests_remaining - 1]

\* http_utils._handle_error_response: the exception it raises and the
\* retry_after of a RateLimitError (<<>> for None).  The detail read from the
\* body of the response goes into the message of the exception only.
_handle_error_response(response) ==
    LET status_code == response.status_code
        Exc(name) == [exc |-> name, retry_after |-> <<>>]
    IN  IF status_code = 401 THEN Exc("AuthenticationError")
        ELSE IF status_code = 403 THEN Exc("AuthorizationError")
        ELSE IF status_code = 404 THEN Exc("NotFoundError")
        ELSE IF status_code = 409 THEN Exc("ConflictError")
        ELSE IF status_code = 429
        THEN LET retry_after == response.retry_after
             IN  \* int(retry_after) if retry_after else None
                 IF retry_after = <<>> \/ retry_after[1] = <<>>
                 THEN Exc("RateLimitError")
                 ELSE IF IsInt(retry_after[1])
                 THEN [exc |-> "RateLimitError",
                       retry_after |-> <<int(retry_after[1])>>]
                 ELSE Exc("ValueError")
        ELSE IF status_code >= 500 THEN Exc("ServerError")
        ELSE Exc("YnabApiError")

\* Mutant of _rate_limiter_present: the limiter is never called.
_rate_limiter_ignored == FALSE

\* The test of _handle_rate_limiting: `self.ynab_py and
\* self.ynab_py._rate_limiter` (neither class defines __bool__ or __len__).
_rate_limiter_present == enable_rate_limiting

\* Where a call of the wrapper is once its call of wait_if_needed has
\* returned, raised, blocked or gone to sleep.
AfterLimiter(t, rec) ==
    /\ h' = [h EXCEPT ![t] =
                IF rl_pc'[t] # "idle" THEN [rec EXCEPT !.pc = "limiting"]
                ELSE IF rl_ret'[t] = "ok" THEN [rec EXCEPT !.pc = "request"]
                ELSE NoHttpCall]
    /\ h_ret' = IF rl_pc'[t] = "idle" /\ rl_ret'[t] # "ok"
                THEN [NoHttpRet EXCEPT !.exc = rl_ret'[t]]
                ELSE h_ret

\* http_utils.get, post, patch, put, delete, from the call to the return of
\* _handle_rate_limiting (or to the point where wait_if_needed blocks or
\* sleeps).
http_call(t, m, e) ==
    /\ h[t].pc = "idle"
    /\ rl_pc[t] = "idle"
    /\ HttpCalls < MaxHttpCalls
    /\ IF _rate_limiter_present
       THEN /\ wait_if_needed(t) \/ blocks(t, "wait_if_needed")
            /\ AfterLimiter(t, [pc |-> "limiting", method |-> m,
                                endpoint |-> e, waits |-> 1])
       ELSE /\ h' = [h EXCEPT ![t] = [pc |-> "request", method |-> m,
                                      endpoint |-> e, waits |-> 0]]
            /\ UNCHANGED <<now, rl_vars, h_ret>>
    /\ UNCHANGED <<cache_vars, key_vars, wrap_vars, lk_vars,
                   enable_rate_limiting, enable_caching, _requests_remaining,
                   h_hist, cl_ret>>

\* The call of wait_if_needed made by the wrapper takes the lock it was
\* blocked at.
http_acquires(t) ==
    /\ h[t].pc = "limiting"
    /\ rl_pc[t] = "wait_if_needed"
    /\ wait_if_needed(t)
    /\ AfterLimiter(t, h[t])
    /\ UNCHANGED <<cache_vars, key_vars, wrap_vars, lk_vars,
                   enable_rate_limiting, enable_caching, _requests_remaining,
                   h_hist, cl_ret>>

\* The time.sleep of the call of wait_if_needed made by the wrapper ends.
http_wakes(t) ==
    /\ h[t].pc = "limiting"
    /\ rl_pc[t] = "sleeping"
    /\ wake_up(t)
    /\ AfterLimiter(t, h[t])
    /\ UNCHANGED <<cache_vars, key_vars, wrap_vars, lk_vars,
                   enable_rate_limiting, enable_caching, _requests_remaining,
                   h_hist, cl_ret>>

\* History: the network request of thread t has been issued and has ended
\* with out.
Sent(t, out) ==
    [h_hist EXCEPT
        !.sent = @ + 1,
        !.got = IF out.exc = "none" /\ h[t].method = "get"
                THEN @ \cup {h[t].endpoint}
                ELSE @]

\* Mutant of http_request_fails: the admission of a request that failed is
\* taken back.
http_request_fails_rolls_back(t) ==
    /\ h[t].pc = "request"
    /\ h_ret' = [NoHttpRet EXCEPT !.exc = "NetworkError"]
    /\ h' = [h EXCEPT ![t] = NoHttpCall]
    /\ h_hist' = Sent(t, h_ret')
    /\ requests' = IF requests = <<>> THEN requests
                   ELSE SubSeq(requests, 1, Len(requests) - 1)
    /\ UNCHANGED <<now, max_requests, lock, rl_pc, rl_wake, rl_ret, rl_stats,
                   rl_hist, cache_vars, key_vars, wrap_vars, lk_vars,
                   enable_rate_limiting, enable_caching, _requests_remaining,
                   cl_ret>>

\* The rest of get, post, patch, put, delete when requests.<method> raises a
\* RequestException (no connection, timeout): NetworkError.
http_request_fails(t) ==
    /\ h[t].pc = "request"
    /\ h_ret' = [NoHttpRet EXCEPT !.exc = "NetworkError"]
    /\ h' = [h EXCEPT ![t] = NoHttpCall]
    /\ h_hist' = Sent(t, h_ret')
    /\ UNCHANGED <<now, rl_vars, cache_vars, key_vars, wrap_vars, lk_vars,
                   enable_rate_limiting, enable_caching, _requests_remaining,
                   cl_ret>>

\* The rest of get, post, patch, put, delete when requests.<method> returns
\* response: the headers are read, then a response that is not ok is turned
\* into an exception, else the response is returned.
http_request(t, response) ==
    /\ h[t].pc = "request"
    /\ LET upd == _update_rate_limit_from_headers(response)
           err == _handle_error_response(response)
       IN  /\ _requests_remaining' = upd.remaining
           /\ h_ret' =
                IF upd.exc # "none"
                THEN [status |-> response.status_code, exc |-> upd.exc,
                      retry_after |-> <<>>]
                ELSE IF ~ok(response)
                THEN [status |-> response.status_code, exc |-> err.exc,
                      retry_after |-> err.retry_after]
                ELSE [status |-> response.status_code, exc |-> "none",
                      retry_after |-> <<>>]
    /\ h' = [h EXCEPT ![t] = NoHttpCall]
    /\ h_hist' = Sent(t, h_ret')
    /\ UNCHANGED <<now, rl_vars, cache_vars, key_vars, wrap_vars, lk_vars,
                   enable_rate_limiting, enable_caching, cl_ret>>

\* The clock advances while calls of the wrapper are made.  The model stops
\* it after MaxHttpTicks steps, but never before the end of a time.sleep that
\* has begun.
HttpTick ==
    /\ \/ now < MaxHttpTicks * TimeStep
       \/ \E t \in Threads : rl_pc[t] = "sleeping" /\ now < rl_wake[t]
    /\ now' = now + TimeStep
    /\ h_hist' = [h_hist EXCEPT !.got = {}]
    /\ UNCHANGED <<rl_vars, cache_vars, key_vars, wrap_vars, lk_vars,
                   enable_rate_limiting, enable_caching, _requests_remaining,
                   h, h_ret, cl_ret>>

\* Mutant of _cache_present: an empty Cache counts as no Cache.
_cache_not_empty == enable_caching /\ _cache # <<>>

\* The test `if self._cache` of get_cache_stats and clear_cache (Cache
\* defines neither __bool__ nor __len__).
_cache_present == enable_caching

\* The dict {"enabled": False}
Disabled == [enabled |-> FALSE]

\* YnabPy.get_rate_limit_stats
YnabPy_get_rate_limit_stats(t) ==
    /\ h[t].pc = "idle"
    /\ rl_pc[t] = "idle"
    /\ IF enable_rate_limiting
       THEN /\ lock = "free"
            /\ limiter_get_stats(t)
            /\ cl_ret' = [call |-> "get_rate_limit_stats",
                          val |-> <<rl_stats'>>, exc |-> "none"]
       ELSE /\ cl_ret' = [call |-> "get_rate_limit_stats",
                          val |-> <<Disabled>>, exc |-> "none"]
            /\ UNCHANGED <<now, rl_vars>>
    /\ UNCHANGED <<cache_vars, key_vars, wrap_vars, lk_vars,
                   enable_rate_limiting, enable_caching, _requests_remaining,
                   h, h_ret, h_hist>>

\* YnabPy.get_cache_stats
YnabPy_get_cache_stats ==
    /\ cl_ret' = [call |-> "get_cache_stats",
                  val |-> IF _cache_present THEN <<stats>> ELSE <<Disabled>>,
                  exc |-> "none"]
    /\ c_ret' = IF _cache_present THEN [NoRet EXCEPT !.log = "stats"] ELSE c_ret
    /\ UNCHANGED <<now, max_size, default_ttl, _cache, _access_order, _hits,
                   _misses, c_used, c_meta, c_gets, rl_vars, key_vars,
                   wrap_vars, lk_vars, enable_rate_limiting, enable_caching,
                   _requests_remaining, h, h_ret, h_hist>>

\* YnabPy.clear_cache
YnabPy_clear_cache ==
    /\ cl_ret' = [call |-> "clear_cache", val |-> <<>>, exc |-> "none"]
    /\ IF _cache_present
       THEN /\ Becomes(clear)
            /\ c_used' = <<>>
            /\ c_meta' = <<>>
            /\ UNCHANGED c_gets
       ELSE UNCHANGED <<_cache, _access_order, _hits, _misses, c_ret, c_used,
                        c_meta, c_gets>>
    /\ UNCHANGED <<now, max_size, default_ttl, rl_vars, key_vars, wrap_vars,
                   lk_vars, enable_rate_limiting, enable_caching,
                   _requests_remaining, h, h_ret, h_hist>>

----------------------------------------------------------------------------
(* Specifications *)

RLNext ==
    \/ \E t \in Threads : RateLimiter_wait_if_needed(t)
    \/ \E t \in Threads : RateLimiter_wake_up(t)
    \/ \E t \in Threads : RateLimiter_get_stats(t)
    \/ \E t \in Threads : RateLimiter_reset(t)
    \/ \E t \in Threads, m \in Methods : RateLimiter_blocks(t, m)
    \/ Tick

RLIdle ==
    /\ max_requests = 0
    /\ requests = <<>>
    /\ lock = "free"
    /\ rl_pc = [t \in Threads |-> "idle"]
    /\ rl_wake = [t \in Threads |-> 0]
    /\ rl_ret = [t \in Threads |-> "none"]
    /\ rl_stats = NoStats
    /\ rl_hist = NoCalls

InitRL ==
    now = 0 /\ RLInit /\ CacheIdle /\ KeyIdle /\ WrapIdle /\ LockIdle /\ HttpIdle

\* One RateLimiter shared by the threads.
SpecRL == InitRL /\ [][RLNext]_vars

\* Thread t, blocked at the `with self.lock` of wait_if_needed, takes the lock.
RateLimiter_acquires(t) ==
    rl_pc[t] = "wait_if_needed" /\ RateLimiter_wait_if_needed(t)

\* Fair scheduling and advancing time: the clock keeps running, a time.sleep
\* whose end has come returns, and a thread blocked at the lock takes it if
\* the lock is free again and again.
RLFairness ==
    /\ WF_vars(Tick)
    /\ \A t \in Threads :
          /\ WF_vars(RateLimiter_wake_up(t))
          /\ SF_vars(RateLimiter_acquires(t))

SpecRLFair == InitRL /\ [][RLNext]_vars /\ RLFairness

CacheNext ==
    \/ \E key \in Keys : Cache_get(key)
    \/ \E key \in Keys, value \in Values, ttl \in TtlArgs :
          Cache_set(key, value, ttl)
    \/ \E key \in Keys : Cache_delete(key)
    \/ Cache_clear
    \/ Cache_get_stats
    \/ CacheTick

InitCache ==
    now = 0 /\ CacheInit /\ RLIdle /\ KeyIdle /\ WrapIdle /\ LockIdle /\ HttpIdle

\* One Cache and its callers.
SpecCache == InitCache /\ [][CacheNext]_vars

KeyNext == CacheKeyCall

InitKey ==
    now = 0 /\ KeyInit /\ RLIdle /\ CacheIdle /\ WrapIdle /\ LockIdle /\ HttpIdle

\* Calls of cache_key on every argument list within the bounds.
SpecKey == InitKey /\ [][KeyNext]_vars

CachedNext ==
    \/ \E t \in Threads, i \in DOMAIN Calls : wrapper_lookup(t, i)
    \/ \E t \in Threads : wrapper_store(t)
    \/ CacheTick

InitCached ==
    now = 0 /\ CacheInit /\ WrapInit /\ RLIdle /\ KeyIdle /\ LockIdle /\ HttpIdle

\* Threads calling a wrapped function that shares one Cache.
SpecCached == InitCached /\ [][CachedNext]_vars

\* The ttl arguments of the calls of set made by the threads: ttl=None, which
\* is default_ttl (0, no expiry, or 1).
LockedTtlArgs == {<<>>}

LockedNext ==
    \/ \E t \in Threads, key \in Keys : get_enter(t, key)
    \/ \E t \in Threads : get_body(t)
    \/ \E t \in Threads, key \in Keys, value \in Values, ttl \in LockedTtlArgs :
          set_enter(t, key, value, ttl)
    \/ \E t \in Threads : set_body(t)
    \/ \E t \in Threads, key \in Keys : delete_enter(t, key)
    \/ \E t \in Threads : delete_body(t)
    \/ \E t \in Threads : clear_enter(t)
    \/ \E t \in Threads : clear_body(t)
    \/ \E t \in Threads : get_stats_enter(t)
    \/ \E t \in Threads : get_stats_body(t)
    \/ LockedTick

InitLocked ==
    now = 0 /\ CacheInit /\ LockInit /\ RLIdle /\ KeyIdle /\ WrapIdle /\ HttpIdle

\* One Cache whose methods the threads run statement by statement.
SpecLocked == InitLocked /\ [][LockedNext]_vars

\* The limiter of the client: RateLimiter() when rate limiting is enabled,
\* with its capacity (180) scaled down to 1..MaxRequests; else none.
ClientLimiter ==
    IF enable_rate_limiting THEN RLInit /\ max_requests >= 1 ELSE RLIdle

\* The cache of the client: Cache(default_ttl=cache_ttl) when caching is
\* enabled, with its capacity (100) scaled down to MaxSize; else none.
ClientCache ==
    IF enable_caching THEN CacheInit /\ max_size = MaxSize ELSE CacheIdle

\* The responses of the server in SpecHttp: found or not found, without an
\* x-rate-limit header.
PlainResponses ==
    {r \in Responses : r.status_code \in {200, 404} /\ r.x_rate_limit = <<>>}

\* The wrapper's methods called by the threads of a client.
HttpNext ==
    \/ \E t \in Threads, m \in HttpMethods, e \in Endpoints : http_call(t, m, e)
    \/ \E t \in Threads : http_acquires(t)
    \/ \E t \in Threads : http_wakes(t)
    \/ \E t \in Threads, response \in PlainResponses : http_request(t, response)
    \/ \E t \in Threads : http_request_fails(t)
    \/ HttpTick

InitHttp ==
    /\ now = 0
    /\ ClientInit /\ ClientLimiter /\ ClientCache
    /\ KeyIdle /\ WrapIdle /\ LockIdle

SpecHttp == InitHttp /\ [][HttpNext]_vars

\* The wrapper's methods with every response of the server, at one instant.
ResponsesNext ==
    \/ \E t \in Threads, m \in HttpMethods, e \in Endpoints : http_call(t, m, e)
    \/ \E t \in Threads, response \in Responses : http_request(t, response)
    \/ \E t \in Threads : http_request_fails(t)

InitResponses ==
    /\ now = 0
    /\ ClientInit /\ ClientLimiter /\ ClientCache
    /\ KeyIdle /\ WrapIdle /\ LockIdle

SpecResponses == InitResponses /\ [][ResponsesNext]_vars

\* The pass-through methods of a client, whose limiter and cache are also
\* called directly.
ClientNext ==
    \/ \E t \in Threads : YnabPy_get_rate_limit_stats(t)
    \/ YnabPy_get_cache_stats
    \/ YnabPy_clear_cache
    \/ \E key \in Keys : enable_caching /\ Cache_set(key, "v1", <<>>)
    \/ \E key \in Keys : enable_caching /\ Cache_get(key)
    \/ \E t \in Threads :
          \* time stands still here: no call that would sleep is made
          /\ enable_rate_limiting
          /\ Len(requests) < max_requests
          /\ RateLimiter_wait_if_needed(t)

InitClient ==
    /\ now = 0
    /\ ClientInit /\ ClientLimiter /\ ClientCache
    /\ KeyIdle /\ WrapIdle /\ LockIdle

SpecClient == InitClient /\ [][ClientNext]_vars

----------------------------------------------------------------------------
(* Claims about RateLimiter *)

\* The log entries inside the trailing window [now - window_seconds, now].
InWindow ==
    {i \in DOMAIN requests :
        requests[i] >= now - window_seconds /\ requests[i] <= now}

\* C1: with max_requests >= 1, at every instant the number of admitted calls
\* whose timestamps lie in [now - window_seconds, now] is at most max_requests.
C1_WindowNeverExceedsMax ==
    max_requests >= 1 => Cardinality(InWindow) <= max_requests

\* C5: with max_requests <= 0, wait_if_needed returns without raising (and
\* without blocking), from any log state including the empty log.
C5_ZeroCapacityAdmitsWithoutError ==
    max_requests <= 0 =>
        \A t \in Threads : rl_ret[t] \notin {"IndexError", "running"}

\* C12: only wait_if_needed suspends its caller, and only when the log is at
\* capacity: no caller of get_stats or reset is ever kept waiting, also while
\* another thread sleeps inside wait_if_needed, and every suspended thread is
\* in wait_if_needed with Len(requests) >= max_requests.
C12_OnlyWaitIfNeededSuspends ==
    \A t \in Threads :
        /\ rl_pc[t] \notin {"get_stats", "reset"}
        /\ rl_pc[t] \in {"sleeping", "wait_if_needed"}
              => Len(requests) >= max_requests

\* C13: a call of wait_if_needed that finds, after the purge, at least
\* max_requests entries and the oldest one younger than window_seconds calls
\* time.sleep once, for oldest + window_seconds - now, with the log purged and
\* nothing appended; when the sleep ends it purges again, appends the instant
\* read after the sleep and returns without a second sleep.  A call that finds
\* fewer than max_requests entries after the purge appends its instant without
\* sleeping.
C13_SleepsOnceThenAppends ==
    [][\A t \in Threads :
          LET purged == _clean_old_requests(requests, now)
          IN  /\ (/\ rl_pc[t] # "sleeping"
                  /\ Len(purged) >= max_requests
                  /\ purged # <<>>
                  /\ now - purged[1] < window_seconds
                  /\ RateLimiter_wait_if_needed(t))
                 => /\ rl_pc'[t] = "sleeping"
                    /\ rl_wake'[t] - now = purged[1] + window_seconds - now
                    /\ requests' = purged
              /\ (/\ rl_pc[t] # "sleeping"
                  /\ Len(purged) < max_requests
                  /\ RateLimiter_wait_if_needed(t))
                 => /\ rl_pc'[t] = "idle"
                    /\ rl_ret'[t] = "ok"
                    /\ requests' = Append(purged, now)
              /\ (rl_pc[t] = "sleeping" /\ RateLimiter_wake_up(t))
                 => /\ now >= rl_wake[t]
                    /\ rl_pc'[t] = "idle"
                    /\ rl_ret'[t] = "ok"
                    /\ requests' = Append(purged, now)]_vars

\* C13, witness: with max_requests = 2, two calls at instant 0 were appended
\* without a sleep and the third call, made later inside the window, sleeps
\* until the first one is window_seconds old.
C13_Witness ==
    /\ max_requests = 2
    /\ requests = <<0, 0>>
    /\ now > 0
    /\ \E t \in Threads :
          rl_pc[t] = "sleeping" /\ rl_wake[t] = window_seconds /\ now < rl_wake[t]

\* C14: the dict of get_stats has requests_remaining =
\* max(0, max_requests - requests_used), which is never negative.
C14_RemainingNeverNegative ==
    /\ rl_stats.requests_remaining >= 0
    /\ rl_stats.requests_remaining =
          IF rl_stats.max_requests - rl_stats.requests_used > 0
          THEN rl_stats.max_requests - rl_stats.requests_used
          ELSE 0

\* C15: on a RateLimiter that was never reset, after N <= max_requests calls
\* of wait_if_needed and before window_seconds have elapsed, get_stats gives
\* requests_used = N and requests_remaining = max_requests - N, and none of
\* the N calls has slept.
C15_StatsAfterNCalls ==
    [][\A t \in Threads :
          (/\ ~rl_hist.was_reset
           /\ rl_hist.calls <= max_requests
           /\ now < window_seconds
           /\ RateLimiter_get_stats(t))
          => /\ rl_stats'.requests_used = rl_hist.calls
             /\ rl_stats'.requests_remaining = max_requests - rl_hist.calls
             /\ rl_stats'.max_requests = max_requests
             /\ rl_hist.sleeps = 0]_vars

\* C15, witness: get_stats gave requests_used = 2 and requests_remaining = 0
\* after two calls with max_requests = 2, half a window after the start.
C15_Witness ==
    /\ max_requests = 2
    /\ ~rl_hist.was_reset
    /\ rl_hist.calls = 2
    /\ rl_hist.sleeps = 0
    /\ now > 0 /\ now < window_seconds
    /\ rl_stats.requests_used = 2
    /\ rl_stats.requests_remaining = 0
    /\ rl_stats.max_requests = 2

\* C16: the dict of get_stats has usage_percentage =
\* requests_used / max_requests * 100 when max_requests > 0 and 0 when
\* max_requests = 0, and the value is between 0 and 100 inclusive.
C16_UsagePercentageInRange ==
    /\ rl_stats.usage_percentage =
          IF rl_stats.max_requests > 0
          THEN <<rl_stats.requests_used * 100, rl_stats.max_requests>>
          ELSE <<0, 1>>
    /\ rl_stats.usage_percentage[1] >= 0
    /\ rl_stats.usage_percentage[1] <= 100 * rl_stats.usage_percentage[2]

\* C20: reset empties the log from any state; a get_stats that follows it
\* gives requests_used = 0, and the next wait_if_needed (max_requests >= 1)
\* returns without sleeping and leaves exactly one entry in the log.
C20_ResetEmptiesLog ==
    [][\A t \in Threads :
          /\ RateLimiter_reset(t) => requests' = <<>>
          /\ (rl_hist.just_reset /\ RateLimiter_get_stats(t))
                => /\ rl_stats'.requests_used = 0
                   /\ requests' = <<>>
          /\ (/\ rl_hist.just_reset
              /\ max_requests >= 1
              /\ RateLimiter_wait_if_needed(t))
                => /\ rl_pc'[t] = "idle"
                   /\ rl_ret'[t] = "ok"
                   /\ rl_hist'.sleeps = rl_hist.sleeps
                   /\ Len(requests') = 1]_vars

\* C20, witness: after a reset of a log that was at capacity, a further call
\* of wait_if_needed has returned inside the same window without any sleep,
\* and the log holds that call only.
C20_Witness ==
    /\ max_requests >= 1
    /\ rl_hist.was_reset /\ ~rl_hist.just_reset
    /\ rl_hist.calls > max_requests
    /\ rl_hist.sleeps = 0
    /\ now < window_seconds
    /\ Len(requests) = 1
    /\ \A t \in Threads : rl_pc[t] = "idle"

\* The log is in ascending order, oldest entry first.
Sorted(reqs) ==
    \A i, j \in DOMAIN reqs : i < j => reqs[i] <= reqs[j]

\* A step that ran the purge of wait_if_needed (before or after its sleep) or
\* of get_stats.
Purges ==
    \E t \in Threads :
        \/ RateLimiter_wait_if_needed(t)
        \/ RateLimiter_wake_up(t)
        \/ RateLimiter_get_stats(t)

\* C25: in every reachable state the call log is sorted ascending, and right
\* after a purge made by wait_if_needed or get_stats at instant now every
\* entry t of the log has now - window_seconds <= t <= now: the entries older
\* than the window are dropped.
C25_LogSortedAndInsideWindow ==
    /\ [](Sorted(requests))
    /\ [][Purges =>
             /\ \A i \in DOMAIN requests' :
                    /\ now - window_seconds <= requests'[i]
                    /\ requests'[i] <= now
             /\ \A i \in DOMAIN requests :
                    requests[i] < now - window_seconds
                    => \A j \in DOMAIN requests' : requests'[j] # requests[i]]_vars

\* C25, witness: a call was admitted, the log was never reset, and a later
\* get_stats found the log empty: its purge dropped every admitted call.
C25_Witness ==
    /\ requests = <<>>
    /\ ~rl_hist.was_reset
    /\ \E t \in Threads : rl_ret[t] = "ok"
    /\ rl_stats.window_seconds = window_seconds
    /\ rl_stats.requests_used = 0
    /\ now > window_seconds

\* The entries of the log that are not strictly older than
\* now - window_seconds.
NotOlderThanWindow ==
    SelectSeq(requests, LAMBDA x : x >= now - window_seconds)

\* C30: the purge removes only the entries strictly older than
\* now - window_seconds, and wait_if_needed sleeps only when the computed wait
\* is strictly positive.  When the log holds max_requests entries and the
\* oldest is exactly window_seconds old, at the call or when the sleep ends,
\* the oldest entry stays, the new instant is appended without a (further)
\* sleep, and the log holds max_requests + 1 entries.
C30_BoundaryEntryIsKept ==
    [][\A t \in Threads :
          /\ (RateLimiter_wait_if_needed(t) \/ RateLimiter_wake_up(t))
                => SubSeq(requests', 1, Len(NotOlderThanWindow))
                      = NotOlderThanWindow
          /\ (RateLimiter_wait_if_needed(t) /\ rl_pc'[t] = "sleeping")
                => rl_wake'[t] > now
          /\ (/\ max_requests >= 1
              /\ Len(NotOlderThanWindow) = max_requests
              /\ NotOlderThanWindow[1] = now - window_seconds
              /\ RateLimiter_wait_if_needed(t) \/ RateLimiter_wake_up(t))
                => /\ requests' = Append(NotOlderThanWindow, now)
                   /\ Len(requests') = max_requests + 1
                   /\ rl_pc'[t] = "idle"
                   /\ rl_ret'[t] = "ok"
                   /\ rl_hist'.sleeps = rl_hist.sleeps]_vars

\* C30, witness: a log that was never reset holds max_requests + 1 entries,
\* the oldest exactly window_seconds old and the newest appended just now.
C30_Witness ==
    /\ max_requests >= 1
    /\ ~rl_hist.was_reset
    /\ Len(requests) = max_requests + 1
    /\ requests[1] = now - window_seconds
    /\ requests[Len(requests)] = now
    /\ \A t \in Threads : rl_pc[t] = "idle"

\* Thread t is inside a call of wait_if_needed that has not returned: blocked
\* at the lock or asleep.
Pending(t) == rl_pc[t] \in {"wait_if_needed", "sleeping"}

----------------------------------------------------------------------------
(* Claims about Cache *)

size == Cardinality(DOMAIN _cache)

\* C2: after any sequence of get, set, delete and clear, the number of stored
\* entries (get_stats()['size']) never exceeds max_size.
C2_SizeNeverExceedsMax ==
    size <= max_size /\ stats.size <= max_size

\* C2, witness: a set has just evicted a key from a full cache of two entries.
C2_Witness ==
    max_size = 2 /\ size = max_size /\ c_ret.evicted # NoKey

\* The step is a call of set that stores key, which was not stored: set is
\* the only call that logs "Cache stored".
StoresNew(key) ==
    /\ now' = now
    /\ c_ret'.log = "stored"
    /\ key \notin DOMAIN _cache
    /\ key \in DOMAIN _cache'

\* What every step of get shows in the state it leads to.
IsGet ==
    /\ now' = now
    /\ c_gets' # c_gets \/ c_ret'.exc # "none"

\* C3: set of a key that is not stored, on a cache holding max_size (>= 1)
\* entries, does not raise, removes exactly one entry, the stored key whose
\* last successful get or set is the oldest, and inserts the new key as the
\* most recently used.
C3_EvictsLeastRecentlyUsed ==
    [][(size = max_size /\ max_size >= 1)
       => /\ c_ret'.exc = "none"
          /\ \A key \in Keys :
                StoresNew(key)
                => /\ DOMAIN _cache' = (DOMAIN _cache \ {c_used[1]}) \cup {key}
                   /\ c_used[1] \in DOMAIN _cache
                   /\ c_ret'.evicted = c_used[1]
                   /\ \A k \in DOMAIN _cache \ {c_used[1]} :
                         _cache'[k] = _cache[k]
                   /\ _access_order'[Len(_access_order')] = key
                   /\ size' = size]_vars

\* C3, witness: after at least one hit, a set has evicted a key from a full
\* cache of two entries.
C3_Witness ==
    max_size = 2 /\ size = 2 /\ _hits >= 1 /\ c_ret.evicted # NoKey

\* C4: _access_order holds each key of _cache exactly once and no other key.
C4_RecencyIsPermutation ==
    /\ Len(_access_order) = size
    /\ \A i \in DOMAIN _access_order : _access_order[i] \in DOMAIN _cache
    /\ \A k \in DOMAIN _cache :
          Cardinality({i \in DOMAIN _access_order : _access_order[i] = k}) = 1

\* C4, witness: a get has just found an expired entry and removed it, and
\* another entry is still stored.
C4_Witness ==
    c_ret.log = "expired" /\ size >= 1

\* C6: no Cache call raises, for any key, value, ttl and capacity (max_size = 0
\* and the empty cache included); set completes with the key stored.
C6_CacheNeverRaises ==
    c_ret.exc = "none"

\* The outcome of get(key) on a stored key: a hit that returns the value.
IsHit(key) ==
    /\ c_ret'.val = _cache[key].value
    /\ c_ret'.exc = "none"
    /\ _hits' = _hits + 1
    /\ _misses' = _misses
    /\ key \in DOMAIN _cache'

\* The outcome of get(key) on a stored key: not found, a miss, the entry and
\* its recency record removed, size one less.
IsExpiry(key) ==
    /\ c_ret'.val = None
    /\ c_ret'.exc = "none"
    /\ _misses' = _misses + 1
    /\ _hits' = _hits
    /\ key \notin DOMAIN _cache'
    /\ ~Contains(_access_order', key)
    /\ Cardinality(DOMAIN _cache') = size - 1

\* C7, as stated: for a key stored at c_meta[key].at with ttl t > 0, get is a
\* hit while fewer than t seconds have elapsed and an expiry once t seconds
\* have elapsed.
C7_ExpiresOnceTtlElapsed ==
    [][\A key \in Keys :
          (/\ key \in DOMAIN _cache
           /\ c_meta[key].ttl > 0
           /\ IsGet
           /\ Cache_get(key))
          => IF now - c_meta[key].at < c_meta[key].ttl
             THEN IsHit(key) ELSE IsExpiry(key)]_vars

\* C7, amended: get is a hit while at most t seconds have elapsed and an
\* expiry once more than t seconds have elapsed.
C7_ExpiresAfterTtlElapsed ==
    [][\A key \in Keys :
          (/\ key \in DOMAIN _cache
           /\ c_meta[key].ttl > 0
           /\ IsGet
           /\ Cache_get(key))
          => IF now - c_meta[key].at <= c_meta[key].ttl
             THEN IsHit(key) ELSE IsExpiry(key)]_vars

\* C7, witness: a get has just found an entry with positive ttl expired.
C7_Witness ==
    c_ret.log = "expired" /\ _misses >= 1

\* C17: _hits + _misses is the number of calls of get that have returned, and
\* the dict of get_stats has total_requests = _hits + _misses and
\* hit_rate_percent = _hits / (_hits + _misses) * 100, or 0 before any get.
C17_CountersCountGets ==
    /\ _hits + _misses = c_gets
    /\ stats.hits = _hits
    /\ stats.misses = _misses
    /\ stats.total_requests = _hits + _misses
    /\ stats.hit_rate_percent =
          IF c_gets = 0 THEN <<0, 1>> ELSE <<_hits * 100, _hits + _misses>>

\* C17, witness: get_stats is called after one hit and one miss on an expired
\* entry.
C17_Witness ==
    /\ c_ret.log = "stats"
    /\ _hits = 1
    /\ _misses = 1
    /\ now > 0
    /\ stats.hit_rate_percent = <<100, 2>>

\* C18: an entry stored with effective ttl 0 is never expired: get on its key
\* is a hit that returns its value at every later instant, and no call other
\* than set, delete and clear removes or changes it.
C18_ZeroTtlNeverExpires ==
    [][\A key \in Keys :
          (key \in DOMAIN _cache /\ c_meta[key].ttl = 0)
          => /\ ~is_expired(_cache[key], now)
             /\ (IsGet /\ Cache_get(key)) => IsHit(key)
             /\ (key \notin DOMAIN _cache' \/ _cache'[key] # _cache[key])
                => ~(\/ CacheTick
                     \/ Cache_get_stats
                     \/ \E k \in Keys : Cache_get(k))]_vars

\* C18, witness: a get has hit an entry of effective ttl 0 two seconds after
\* it was stored, later than every positive ttl the callers use.
C18_Witness ==
    /\ c_ret.log = "hit"
    /\ c_used # <<>>
    /\ c_meta[c_used[Len(c_used)]].ttl = 0
    /\ now - c_meta[c_used[Len(c_used)]].at >= 2

\* C19: _hits and _misses never decrease and only get changes them: set,
\* delete, clear and get_stats leave both as they are, and clear empties
\* _cache and _access_order.
C19_OnlyGetChangesCounters ==
    [][/\ _hits' >= _hits
       /\ _misses' >= _misses
       /\ (_hits' # _hits \/ _misses' # _misses)
             => \E key \in Keys : Cache_get(key)
       /\ Cache_clear
             => /\ _cache' = <<>>
                /\ _access_order' = <<>>
                /\ _hits' = _hits
                /\ _misses' = _misses]_vars

\* C19, witness: clear has emptied the cache after one hit and one miss.
C19_Witness ==
    /\ c_ret.log = "cleared"
    /\ _cache = <<>>
    /\ _hits = 1
    /\ _misses = 1

\* What every step of delete shows in the state it leads to.
IsDelete ==
    /\ now' = now
    /\ c_ret'.log \in {"deleted", "none"}

\* C21: delete of a key that is not stored and clear of an empty cache do not
\* raise and leave _cache, _access_order, size and the counters as they are;
\* delete and clear are idempotent: after delete(key) the key is not stored
\* and after clear nothing is, so a second call finds the case above.
C21_DeleteAndClearIdempotent ==
    [][/\ \A key \in Keys :
             (IsDelete /\ Cache_delete(key))
             => /\ c_ret'.exc = "none"
                /\ key \notin DOMAIN _cache'
                /\ ~Contains(_access_order', key)
                /\ key \notin DOMAIN _cache
                      => /\ UNCHANGED <<_cache, _access_order, _hits, _misses>>
                         /\ size' = size
       /\ Cache_clear
             => /\ c_ret'.exc = "none"
                /\ _cache' = <<>>
                /\ _access_order' = <<>>
                /\ UNCHANGED <<_hits, _misses>>
                /\ _cache = <<>>
                      => /\ UNCHANGED <<_cache, _access_order>>
                         /\ size' = 0]_vars

\* C21, witness: delete of a key that is not stored has returned on a cache
\* that holds another key and has served a get.
C21_Witness ==
    /\ c_ret = NoRet
    /\ size >= 1
    /\ c_gets >= 1

\* The _access_order without key.
Others(key) == SelectSeq(_access_order, LAMBDA k : k # key)

\* C26: set(key, value, ttl) on a key that is already stored replaces its
\* value, computes its expiry from the instant of this set, makes the key the
\* most recently used and evicts nothing: every other entry and the relative
\* recency order of the other keys stay as they were, also when the cache
\* holds max_size entries.
C26_SetOfStoredKeyReplaces ==
    [][IF c_ret'.log = "stored" /\ now' = now
       THEN \* the step is set(key, c_meta'[key].value, ...) made now
            LET key == _access_order'[Len(_access_order')]
            IN  /\ c_ret'.replaced = (key \in DOMAIN _cache)
                /\ key \in DOMAIN _cache
                      => /\ c_ret'.exc = "none"
                         /\ c_ret'.evicted = NoKey
                         /\ c_meta'[key].at = now
                         /\ _cache'[key] =
                               [value |-> c_meta'[key].value,
                                expiry |-> IF c_meta'[key].ttl > 0
                                           THEN now + c_meta'[key].ttl
                                           ELSE Inf]
                         /\ DOMAIN _cache' = DOMAIN _cache
                         /\ \A k \in DOMAIN _cache \ {key} :
                               _cache'[k] = _cache[k]
                         /\ _access_order' = Others(key) \o <<key>>
                         /\ size' = size
                         /\ UNCHANGED <<_hits, _misses>>
       ELSE c_ret'.replaced => UNCHANGED c_ret]_vars

\* C26, witness: on a cache that holds max_size = 2 entries, a set has just
\* replaced the entry of a key stored at an earlier instant.
C26_Witness ==
    /\ max_size = 2
    /\ size = 2
    /\ c_ret.replaced
    /\ now > 0
    /\ \E k \in DOMAIN _cache : c_meta[k].at = now
    /\ \E k \in DOMAIN _cache : c_meta[k].at < now

----------------------------------------------------------------------------
(* Claims about the cached wrapper *)

\* C8: a call of the wrapper whose arguments were already computed, with the
\* entry still stored and unexpired, returns the stored result without
\* running the wrapped function, whatever that result is.
C8_SecondCallServedFromCache ==
    [][\A t \in Threads, i \in DOMAIN Calls :
          (/\ wrapper_key(i) \in DOMAIN _cache
           /\ ~is_expired(_cache[wrapper_key(i)], now)
           /\ _cache[wrapper_key(i)].value = func(i)
           /\ w_runs[i] >= 1
           /\ wrapper_lookup(t, i))
          => /\ w_pc'[t] = "idle"
             /\ w_ret'[t] = [call |-> i, val |-> func(i), exc |-> "none"]]_vars

\* C9: calls with different arguments have different keys, so no call is
\* given a value that was cached for a call with other arguments: what the
\* wrapper returns for a call is what the wrapped function gives for it.
C9_DifferentArgumentsDifferentKeys ==
    \A t \in Threads :
        (w_ret[t].call # 0 /\ w_ret[t].exc = "none")
        => w_ret[t].val = func(w_ret[t].call)

----------------------------------------------------------------------------
(* Claims about cache_key *)

\* The orders in which the named arguments kw can be passed.
Reorderings(kw) ==
    {q \in [DOMAIN kw -> {kw[i] : i \in DOMAIN kw}] :
        \A i \in DOMAIN kw : \E j \in DOMAIN kw : q[j] = kw[i]}

\* The positional arguments that are not None.
WithoutNone(args) == SelectSeq(args, LAMBDA x : x # PyNone)

\* The named arguments that are not None.
WithoutNoneNamed(kw) == SelectSeq(kw, LAMBDA x : x.v # PyNone)

\* The named arguments of kw that are not None, by ascending name.
Ascending(kw) ==
    CHOOSE q \in Reorderings(WithoutNoneNamed(kw)) :
        \A i, j \in DOMAIN q : i < j => str_lt(q[i].k, q[j].k)

\* C10: cache_key is canonical: the key does not depend on the order in which
\* the named arguments are passed, arguments that are None contribute nothing,
\* and the key is the ':'-joined list of the positional arguments in call
\* order followed by name=value of the named ones by ascending name.
C10_CacheKeyCanonical ==
    ck_done =>
        /\ \A q \in Reorderings(ck_kwargs) : cache_key(ck_args, q) = ck_key
        /\ cache_key(WithoutNone(ck_args), WithoutNoneNamed(ck_kwargs)) = ck_key
        /\ LET pos == WithoutNone(ck_args)
               named == Ascending(ck_kwargs)
           IN  ck_key = join(<<":">>,
                   [i \in DOMAIN pos |-> str(pos[i])] \o
                   [i \in DOMAIN named |->
                        named[i].k \o <<"=">> \o str(named[i].v)])

\* C10, witness: a key returned for a call with a None positional argument and
\* two named arguments passed in descending order of their names.
C10_Witness ==
    /\ ck_done
    /\ \E i \in DOMAIN ck_args : ck_args[i] = PyNone
    /\ Len(ck_kwargs) = 2
    /\ str_lt(ck_kwargs[2].k, ck_kwargs[1].k)
    /\ ck_kwargs[1].v # PyNone /\ ck_kwargs[2].v # PyNone

----------------------------------------------------------------------------
(* Claims about the Cache under concurrent callers *)

\* C11: get, set, delete, clear and get_stats are atomic with respect to each
\* other: at most one thread is inside a method; whenever no thread is inside,
\* the entries, the recency order, the counters and what the last call gave
\* its caller are those of that call run alone on the state it found, so every
\* interleaving gives what the calls give one after the other in the order in
\* which they took the lock; and size never exceeds max_size, the states inside
\* a method included.
C11_CallsAreAtomic ==
    /\ \A t, u \in Threads :
          (th[t].pc # "idle" /\ th[u].pc # "idle") => (t = u /\ _lock = t)
    /\ (_lock = "free" /\ lin.t # "none") =>
          /\ _cache = lin.out.cache
          /\ _access_order = lin.out.order
          /\ _hits = lin.out.hits
          /\ _misses = lin.out.misses
          /\ c_ret = [val |-> lin.out.val, exc |-> lin.out.exc,
                      log |-> lin.out.log, evicted |-> lin.out.evicted,
                      replaced |-> FALSE, unexpired |-> FALSE]
          /\ c_ret.log = "stats" => stats = lin.stats
    /\ Cardinality(DOMAIN _cache) <= max_size

\* C11, witness: thread t2 is inside set, between the eviction and the store,
\* on a full cache of two entries on which a get has hit.
C11_Witness ==
    /\ max_size = 2
    /\ th["t2"].pc = "set_store"
    /\ th["t2"].lru_key # NoKey
    /\ lin.t = "t2"
    /\ _hits = 1

----------------------------------------------------------------------------
(* Claims about the client and its HTTP wrapper *)

\* The step issues the network request of thread t; the request ends, with a
\* response or without, in the same step.
Issues(t) == h[t].pc = "request" /\ h'[t].pc = "idle"

\* The step is the call of a method of the wrapper by thread t.
Calls_(t) == h[t].pc = "idle" /\ h'[t].pc # "idle"

\* C22: for each of get, post, patch, put and delete: with a rate limiter,
\* wait_if_needed is called exactly once and has returned before the network
\* request is issued; with rate limiting disabled nothing is admitted and the
\* request is issued directly.
C22_AdmittedOnceBeforeRequest ==
    [][\A t \in Threads :
          /\ Calls_(t)
                => /\ h'[t].method \in HttpMethods
                   /\ IF enable_rate_limiting
                      THEN /\ rl_hist'.calls = rl_hist.calls + 1
                           /\ rl_pc'[t] = "idle" <=> h'[t].pc = "request"
                      ELSE /\ h'[t].pc = "request"
                           /\ UNCHANGED rl_vars
          /\ (h[t].pc = "limiting" /\ h'[t].pc # "limiting")
                => /\ h'[t].pc = "request"
                   /\ rl_hist'.calls = rl_hist.calls
                   /\ rl_pc'[t] = "idle"
                   /\ requests'[Len(requests')] = now
          /\ Issues(t)
                => /\ h[t].method \in HttpMethods
                   /\ UNCHANGED rl_vars
                   /\ IF enable_rate_limiting
                      THEN /\ h[t].waits = 1
                           /\ rl_pc[t] = "idle"
                           /\ rl_ret[t] = "ok"
                      ELSE /\ h[t].waits = 0
                           /\ requests = <<>>
                           /\ rl_hist.calls = 0]_vars

\* C22, witness: with a rate limiter, MaxHttpCalls requests have been issued,
\* one of them after a sleep inside wait_if_needed, and thread t1 has just got
\* the response of its last one.
C22_Witness ==
    /\ enable_rate_limiting
    /\ rl_hist.sleeps >= 1
    /\ rl_hist.calls = MaxHttpCalls
    /\ h_hist.sent = MaxHttpCalls
    /\ Len(requests) >= 2
    /\ h_ret.exc = "none" /\ h_ret.status = 200

\* C23: with caching enabled the HTTP call path consults the Cache first,
\* calls the rate limiter only on a miss and stores a successful response in
\* the Cache: a repeated identical request whose entry has not expired (here:
\* a get of an endpoint for which a get has returned a response at this same
\* instant) is served from the Cache, adds nothing to the log of the limiter
\* and issues no network request.
C23_RepeatedGetServedFromCache ==
    [][\A t \in Threads :
          enable_caching
          => /\ (Issues(t) /\ h[t].method = "get" /\ h_ret'.exc = "none")
                   => _cache' # <<>>
             /\ (Calls_(t) /\ h'[t].method = "get"
                   /\ h'[t].endpoint \in h_hist.got)
                   => FALSE
             /\ (Issues(t) /\ h[t].method = "get"
                   /\ h[t].endpoint \in h_hist.got)
                   => FALSE]_vars

\* The Cache.get_stats dict of the state after the step.
StatsAfter ==
    [size |-> Cardinality(DOMAIN _cache'),
     max_size |-> max_size,
     hits |-> _hits',
     misses |-> _misses',
     total_requests |-> _hits' + _misses',
     hit_rate_percent |-> IF _hits' + _misses' > 0
                          THEN <<_hits' * 100, _hits' + _misses'>>
                          ELSE <<0, 1>>]

\* C24: get_rate_limit_stats returns {"enabled": False} iff rate limiting was
\* disabled at construction and else what the limiter's get_stats returns;
\* get_cache_stats returns {"enabled": False} iff caching was disabled and
\* else what the cache's get_stats returns, also when the cache is empty;
\* clear_cache empties the cache when caching is enabled, and does nothing
\* and does not raise when it is disabled.
C24_PassThroughsReflectConfiguration ==
    [][/\ \A t \in Threads :
             (cl_ret'.call = "get_rate_limit_stats"
                /\ YnabPy_get_rate_limit_stats(t))
             => /\ cl_ret'.exc = "none"
                /\ (cl_ret'.val = <<Disabled>>) <=> ~enable_rate_limiting
                /\ enable_rate_limiting
                      => /\ cl_ret'.val = <<rl_stats'>>
                         /\ rl_stats'.requests_used = Len(requests')
                         /\ rl_stats'.max_requests = max_requests
                         /\ requests' = _clean_old_requests(requests, now)
                /\ ~enable_rate_limiting => UNCHANGED rl_vars
       /\ (cl_ret'.call = "get_cache_stats" /\ YnabPy_get_cache_stats)
             => /\ cl_ret'.exc = "none"
                /\ (cl_ret'.val = <<Disabled>>) <=> ~enable_caching
                /\ enable_caching => cl_ret'.val = <<StatsAfter>>
                /\ UNCHANGED <<_cache, _access_order, _hits, _misses>>
       /\ (cl_ret'.call = "clear_cache" /\ YnabPy_clear_cache)
             => /\ cl_ret'.exc = "none"
                /\ cl_ret'.val = <<>>
                /\ IF enable_caching
                   THEN /\ _cache' = <<>>
                        /\ _access_order' = <<>>
                        /\ UNCHANGED <<_hits, _misses>>
                   ELSE UNCHANGED cache_vars]_vars

\* C24, witness: with caching enabled, get_cache_stats has just returned the
\* dict of a cache that clear_cache has emptied after a hit.
C24_Witness ==
    /\ enable_caching
    /\ _cache = <<>>
    /\ _hits >= 1
    /\ cl_ret.call = "get_cache_stats"
    /\ cl_ret.val # <<Disabled>>
    /\ cl_ret.val[1].size = 0
    /\ cl_ret.val[1].hits = _hits

\* The exception C28 names for a status that is not ok.
ExceptionOf(status) ==
    IF status = 401 THEN "AuthenticationError"
    ELSE IF status = 403 THEN "AuthorizationError"
    ELSE IF status = 404 THEN "NotFoundError"
    ELSE IF status = 409 THEN "ConflictError"
    ELSE IF status = 429 THEN "RateLimitError"
    ELSE IF status >= 500 THEN "ServerError"
    ELSE "YnabApiError"

\* C28: a response that is not ok is turned into the one exception its status
\* names (401 AuthenticationError, 403 AuthorizationError, 404 NotFoundError,
\* 409 ConflictError, 429 RateLimitError with the Retry-After value as
\* retry_after, >= 500 ServerError, else YnabApiError), which reaches the
\* caller as it is; NetworkError is raised for transport failures only.
C28_ExceptionChosenByStatus ==
    /\ h_ret.status >= 400 => h_ret.exc = ExceptionOf(h_ret.status)
    /\ h_ret.retry_after # <<>> => h_ret.status = 429
    /\ h_ret.exc = "NetworkError" => h_ret.status = NoStatus

\* The requests that have passed the limiter: issued, or about to be.
Attempted == h_hist.sent + Cardinality({t \in Threads : h[t].pc = "request"})

\* C29: admission is recorded before the request and never taken back: a
\* request that ends in NetworkError or in an API exception leaves its
\* instant in the log, so that within the window requests_used (the length of
\* the purged log) is the number of attempted requests, failed or not.
C29_AdmissionIsNeverTakenBack ==
    /\ [](enable_rate_limiting /\ now <= window_seconds
             => Len(_clean_old_requests(requests, now)) = Attempted)
    /\ [][\A t \in Threads : Issues(t) => UNCHANGED requests]_vars

\* C29, witness: with a rate limiter, inside the first window, two requests
\* or more were issued, the last one failed, and the log holds one entry for
\* each.
C29_Witness ==
    /\ enable_rate_limiting
    /\ now <= window_seconds
    /\ h_hist.sent >= 2
    /\ h_ret.exc \in {"NetworkError", "NotFoundError"}
    /\ Len(requests) = h_hist.sent
    /\ \A t \in Threads : h[t].pc = "idle"

----------------------------------------------------------------------------
(* Claims about expiry, eviction and the values of the Cache *)

\* The stored keys whose entry has expired.
Expired == {k \in DOMAIN _cache : is_expired(_cache[k], now)}

Unexpired(key) ==
    \/ c_meta[key].ttl <= 0
    \/ now - c_meta[key].at <= c_meta[key].ttl

\* C33: get counts a hit exactly when the key is stored and unexpired,
\* whatever the stored value is: for a key stored with the value None it
\* returns None, which is also what it returns when nothing is found, counts
\* a hit and makes the key the most recently used.
C33_HitWhateverTheValue ==
    [][\A key \in Keys :
          (IsGet /\ Cache_get(key))
          => LET found == key \in DOMAIN _cache /\ Unexpired(key)
             IN  /\ c_ret'.exc = "none"
                 /\ (_hits' = _hits + 1) <=> found
                 /\ (_misses' = _misses + 1) <=> ~found
                 /\ _hits' + _misses' = _hits + _misses + 1
                 /\ found => /\ c_ret'.val = c_meta[key].value
                             /\ c_ret'.log = "hit"
                             /\ _access_order' = Others(key) \o <<key>>
                             /\ UNCHANGED _cache
                 /\ ~found => /\ c_ret'.val = None
                              /\ c_ret'.log \in {"miss", "expired"}]_vars

\* C33, witness: get has just hit an entry whose value is None: it returned
\* None, counted the hit and the key is the most recently used of two.
C33_Witness ==
    /\ c_ret.log = "hit"
    /\ c_ret.val = None
    /\ _hits >= 1
    /\ Len(_access_order) = 2
    /\ c_meta[_access_order[2]].value = None
    /\ c_meta[_access_order[1]].at >= c_meta[_access_order[2]].at

\* C34: an entry stored with a negative effective ttl is treated like one
\* stored with ttl 0: its expiry is float('inf'), get on its key is a hit that
\* returns its value at every later instant, and only set, delete and clear
\* remove or change it.
C34_NegativeTtlNeverExpires ==
    [][\A key \in Keys :
          (key \in DOMAIN _cache /\ c_meta[key].ttl < 0)
          => /\ _cache[key].expiry = Inf
             /\ _cache[key] = CacheEntry(c_meta[key].value, 0, c_meta[key].at)
             /\ ~is_expired(_cache[key], now)
             /\ (IsGet /\ Cache_get(key))
                   => IsHit(key) /\ c_ret'.val = c_meta[key].value
             /\ (key \notin DOMAIN _cache' \/ _cache'[key] # _cache[key])
                   => ~(\/ CacheTick
                        \/ Cache_get_stats
                        \/ \E k \in Keys : Cache_get(k))]_vars

\* C34, witness: a get has hit an entry stored with ttl -1 two seconds after
\* it was stored, later than every positive ttl the callers use.
C34_Witness ==
    /\ c_ret.log = "hit"
    /\ _access_order # <<>>
    /\ c_meta[_access_order[Len(_access_order)]].ttl < 0
    /\ now - c_meta[_access_order[Len(_access_order)]].at >= 2

----------------------------------------------------------------------------
(* Claims about concurrent calls of the cached wrapper *)

\* The number of times key is in the recency list.
Occurrences(key) ==
    Cardinality({n \in DOMAIN _access_order : _access_order[n] = key})

\* The step is the return, without exception, of a call i of the wrapper by
\* thread t: at once on a hit, or after func and cache_instance.set.
Returns(t, i) ==
    /\ w_ret'[t] # w_ret[t]
    /\ w_ret'[t].call = i
    /\ w_ret'[t].exc = "none"

\* C31: threads call the wrapped function with equal arguments concurrently
\* (get, func and set are not one critical section, so func may run in more
\* than one of them): a call that returns while another thread is inside a
\* call with the same arguments returns the value func gives for these
\* arguments, and so does every call; and once all threads have returned
\* from a call with these arguments, the cache holds one entry for the
\* derived key, the recency list holds the key once, and size <= max_size.
C31_ConcurrentEqualCalls ==
    /\ [][\A t, u \in Threads, i \in DOMAIN Calls :
             (/\ t # u
              /\ w_pc[u] = "missed"
              /\ w_call[u] = i
              /\ Returns(t, i))
             => w_ret'[t].val = func(i)]_vars
    /\ [](\A i \in DOMAIN Calls :
             (\A t \in Threads :
                 /\ w_pc[t] = "idle"
                 /\ w_ret[t].call = i
                 /\ w_ret[t].exc = "none")
             => /\ wrapper_key(i) \in DOMAIN _cache
                /\ Occurrences(wrapper_key(i)) = 1
                /\ size <= max_size
                /\ \A t \in Threads : w_ret[t].val = func(i))

====
